---- MODULE Spec2Model ----
(***************************************************************************)
(* Format mode of the codestyle rule engine (src/src/rust_checks).         *)
(*                                                                         *)
(* A file's content is a sequence of one-character strings (all ASCII, so  *)
(* a character is a byte and a parser column is a byte column).  Byte      *)
(* offsets are 0-based as in the Rust code; Slice(s, a, b) is s[a..b].     *)
(*                                                                         *)
(* The parser (syn) is an external collaborator.  It is modelled for a     *)
(* small subset of Rust: top-level items                                   *)
(*     [pub] struct IDENT ;                                                *)
(*     impl IDENT [for IDENT] [< IDENT >] { fn-item* }                     *)
(*     [pub] [async] fn IDENT ( ) { }                                      *)
(*     [pub] const IDENT : IDENT = 1 ;                                     *)
(*     [pub] type IDENT = IDENT ;                                          *)
(*     [pub] trait IDENT { }                                               *)
(* each after any number of outer attributes #[IDENT], and                 *)
(* separated by blanks, newlines, line comments and block comments.        *)
(* Everything else is a syntax error.  Spans are (line, column) pairs,     *)
(* line 1-based, column 0-based, as proc_macro2 reports them.              *)
(***************************************************************************)
EXTENDS Integers, Sequences, FiniteSets, TLC

(***************************************************************************)
(* Text primitives (Rust str methods used by the rules)                    *)
(***************************************************************************)
NL == "\n"

IsWs(c) == c \in {" ", "\n", "\t"}

IdentChars ==
  {"a","b","c","d","e","f","g","h","i","j","k","l","m","n","o","p","q","r",
   "s","t","u","v","w","x","y","z","A","B","T","_"}

Slice(s, a, b) == SubSeq(s, a + 1, b)

SliceFrom(s, a) == SubSeq(s, a + 1, Len(s))

StartsWithAt(s, i, lit) ==
  /\ i + Len(lit) <= Len(s)
  /\ \A k \in 1..Len(lit) : s[i + k] = lit[k]

starts_with(s, lit) == StartsWithAt(s, 0, lit)

ends_with(s, lit) ==
  /\ Len(lit) <= Len(s)
  /\ StartsWithAt(s, Len(s) - Len(lit), lit)

\* str::find(pat) restricted to s[from..]: absolute 0-based offset, or -1
RECURSIVE FindFrom(_, _, _)
FindFrom(s, lit, from) ==
  IF from + Len(lit) > Len(s) THEN -1
  ELSE IF StartsWithAt(s, from, lit) THEN from
  ELSE FindFrom(s, lit, from + 1)

find(s, lit) == FindFrom(s, lit, 0)

contains(s, lit) == find(s, lit) >= 0

\* str::rfind(ch) restricted to s[..upto]: 0-based offset, or -1
RECURSIVE RFindBefore(_, _, _)
RFindBefore(s, ch, upto) ==
  IF upto <= 0 THEN -1
  ELSE IF s[upto] = ch THEN upto - 1
  ELSE RFindBefore(s, ch, upto - 1)

rfind(s, ch) == RFindBefore(s, ch, Len(s))

RECURSIVE trim_start(_)
trim_start(s) ==
  IF s # <<>> /\ IsWs(Head(s)) THEN trim_start(Tail(s)) ELSE s

RECURSIVE trim_end(_)
trim_end(s) ==
  IF s # <<>> /\ IsWs(s[Len(s)]) THEN trim_end(SubSeq(s, 1, Len(s) - 1)) ELSE s

trim(s) == trim_end(trim_start(s))

RECURSIVE trim_start_matches_nl(_)
trim_start_matches_nl(s) ==
  IF s # <<>> /\ Head(s) = NL THEN trim_start_matches_nl(Tail(s)) ELSE s

\* str::lines(): split at "\n"; a final empty piece is not a line
RECURSIVE LinesFrom(_, _)
LinesFrom(s, from) ==
  IF from >= Len(s) THEN <<>>
  ELSE LET nl == FindFrom(s, <<NL>>, from)
       IN  IF nl < 0 THEN <<Slice(s, from, Len(s))>>
           ELSE <<Slice(s, from, nl)>> \o LinesFrom(s, nl + 1)

lines(s) == LinesFrom(s, 0)

\* [&str]::join("\n")
RECURSIVE JoinWith(_, _)
JoinWith(parts, sep) ==
  IF parts = <<>> THEN <<>>
  ELSE IF Len(parts) = 1 THEN parts[1]
  ELSE parts[1] \o sep \o JoinWith(Tail(parts), sep)

\* String::replace_range(start..end, replacement)
replace_range(s, start, end, replacement) ==
  Slice(s, 0, start) \o replacement \o SliceFrom(s, end)

(***************************************************************************)
(* Source text fragments                                                   *)
(***************************************************************************)
KwPub    == <<"p","u","b">>
KwStruct == <<"s","t","r","u","c","t">>
KwImpl   == <<"i","m","p","l">>
KwFor    == <<"f","o","r">>
KwAsync  == <<"a","s","y","n","c">>
KwFn     == <<"f","n">>
KwMain   == <<"m","a","i","n">>
KwConst  == <<"c","o","n","s","t">>
KwType   == <<"t","y","p","e">>
KwTrait  == <<"t","r","a","i","t">>
Keywords == {KwPub, KwStruct, KwImpl, KwFor, KwAsync, KwFn, KwConst, KwType, KwTrait}

\* impl_folds.rs: OPEN_MARKER = "/*{{{1*/", CLOSE_MARKER = "//,}}}1"
OPEN_MARKER  == <<"/","*","{","{","{","1","*","/">>
CLOSE_MARKER == <<"/","/",",","}","}","}","1">>

(***************************************************************************)
(* The parser: tokens with proc_macro2 line/column spans, then items       *)
(***************************************************************************)
RECURSIVE IdentEnd(_, _)
IdentEnd(s, i) ==
  IF i < Len(s) /\ s[i + 1] \in IdentChars \cup {"1"} THEN IdentEnd(s, i + 1) ELSE i

\* line and column reached after consuming s[i..j) from position (line, col)
RECURSIVE Advance(_, _, _, _, _)
Advance(s, i, j, line, col) ==
  IF i >= j THEN <<line, col>>
  ELSE IF s[i + 1] = NL THEN Advance(s, i + 1, j, line + 1, 0)
  ELSE Advance(s, i + 1, j, line, col + 1)

Tok(text, line, col) ==
  [text |-> text, line |-> line, col |-> col, ecol |-> col + Len(text)]

ErrTok == [text |-> <<"?">>, line |-> 0, col |-> 0, ecol |-> 0]

RECURSIVE Lex(_, _, _, _)
Lex(s, i, line, col) ==
  IF i >= Len(s) THEN <<>>
  ELSE CASE s[i + 1] = NL -> Lex(s, i + 1, line + 1, 0)
         [] s[i + 1] # NL /\ IsWs(s[i + 1]) -> Lex(s, i + 1, line, col + 1)
         [] StartsWithAt(s, i, <<"/", "/">>) ->
              LET nl == FindFrom(s, <<NL>>, i)
              IN  IF nl < 0 THEN <<>> ELSE Lex(s, nl, line, col + (nl - i))
         [] StartsWithAt(s, i, <<"/", "*">>) ->
              LET close == FindFrom(s, <<"*", "/">>, i + 2)
              IN  IF close < 0 THEN <<ErrTok>>
                  ELSE LET lc == Advance(s, i, close + 2, line, col)
                       IN  Lex(s, close + 2, lc[1], lc[2])
         [] s[i + 1] \in IdentChars ->
              LET e == IdentEnd(s, i)
              IN  <<Tok(Slice(s, i, e), line, col)>> \o Lex(s, e, line, col + (e - i))
         [] OTHER -> <<Tok(<<s[i + 1]>>, line, col)>> \o Lex(s, i + 1, line, col + 1)

Tokens(content) == Lex(content, 0, 1, 0)

Tk(toks, k) == IF k <= Len(toks) THEN toks[k].text ELSE <<>>

IsIdentTok(toks, k) ==
  /\ k <= Len(toks)
  /\ toks[k].text[1] \in IdentChars
  /\ toks[k].text \notin Keywords

ErrItem == [kind |-> "error"]

MkItem(kind, ident, is_trait, is_pub, is_async, first, last, id) ==
  [kind |-> kind, ident |-> ident, is_trait |-> is_trait, is_pub |-> is_pub,
   is_async |-> is_async,
   sline |-> first.line, scol |-> first.col,
   eline |-> last.line, ecol |-> last.ecol,
   id_line |-> id.line, id_col |-> id.col]

\* [pub] [async] fn IDENT ( ) { } starting at token k: the index after it, or 0
FnEnd(toks, k) ==
  LET k1 == IF Tk(toks, k) = KwPub THEN k + 1 ELSE k
      k2 == IF Tk(toks, k1) = KwAsync THEN k1 + 1 ELSE k1
  IN  IF /\ Tk(toks, k2) = KwFn
         /\ IsIdentTok(toks, k2 + 1)
         /\ Tk(toks, k2 + 2) = <<"(">>
         /\ Tk(toks, k2 + 3) = <<")">>
         /\ Tk(toks, k2 + 4) = <<"{">>
         /\ Tk(toks, k2 + 5) = <<"}">>
      THEN k2 + 6 ELSE 0

FnItem(toks, k) ==
  LET is_pub == Tk(toks, k) = KwPub
      k1 == IF is_pub THEN k + 1 ELSE k
      is_async == Tk(toks, k1) = KwAsync
      k2 == IF is_async THEN k1 + 1 ELSE k1
  IN  MkItem("fn", toks[k2 + 1].text, FALSE, is_pub, is_async,
             toks[k], toks[k2 + 5], toks[k2 + 1])

\* the items of an impl body starting at token k: index of the first token
\* that does not start a fn item
RECURSIVE ImplBodyEnd(_, _)
ImplBodyEnd(toks, k) ==
  IF FnEnd(toks, k) > 0 THEN ImplBodyEnd(toks, FnEnd(toks, k)) ELSE k

\* the names of the fn items of an impl body that starts at token k
RECURSIVE ImplBodyFns(_, _)
ImplBodyFns(toks, k) ==
  IF FnEnd(toks, k) > 0
  THEN <<FnItem(toks, k).ident>> \o ImplBodyFns(toks, FnEnd(toks, k))
  ELSE <<>>

\* the number of tokens of the generic arguments < IDENT > at token k
GenericArgs(toks, k) == IF Tk(toks, k) = <<"<">> THEN 3 ELSE 0

\* impl IDENT [for IDENT] [< IDENT >] { fn-item* } starting at token k:
\* index after, or 0
ImplEnd(toks, k) ==
  LET is_trait == Tk(toks, k + 2) = KwFor
      self_ty == IF is_trait THEN k + 3 ELSE k + 1
      kb == self_ty + 1 + GenericArgs(toks, self_ty + 1)
      kc == ImplBodyEnd(toks, kb + 1)
  IN  IF /\ Tk(toks, k) = KwImpl
         /\ IsIdentTok(toks, k + 1)
         /\ is_trait => IsIdentTok(toks, k + 3)
         /\ GenericArgs(toks, self_ty + 1) > 0 =>
              IsIdentTok(toks, self_ty + 2) /\ Tk(toks, self_ty + 3) = <<">">>
         /\ Tk(toks, kb) = <<"{">>
         /\ Tk(toks, kc) = <<"}">>
      THEN kc + 1 ELSE 0

\* ident is the last path segment of the self type, self_ty the type with
\* its generic arguments, body the names of the block's fn items
ImplItem(toks, k) ==
  LET is_trait == Tk(toks, k + 2) = KwFor
      self_ty == IF is_trait THEN k + 3 ELSE k + 1
      kb == self_ty + 1 + GenericArgs(toks, self_ty + 1)
  IN  [self_ty |-> [j \in 1..(kb - self_ty) |-> toks[self_ty + j - 1].text],
       body |-> ImplBodyFns(toks, kb + 1)]
      @@ MkItem("impl", toks[self_ty].text, is_trait, FALSE, FALSE,
                toks[k], toks[ImplEnd(toks, k) - 1], toks[self_ty])

\* [pub] struct IDENT ; starting at token k: index after, or 0
StructEnd(toks, k) ==
  LET k1 == IF Tk(toks, k) = KwPub THEN k + 1 ELSE k
  IN  IF /\ Tk(toks, k1) = KwStruct
         /\ IsIdentTok(toks, k1 + 1)
         /\ Tk(toks, k1 + 2) = <<";">>
      THEN k1 + 3 ELSE 0

StructItem(toks, k) ==
  LET is_pub == Tk(toks, k) = KwPub
      k1 == IF is_pub THEN k + 1 ELSE k
  IN  MkItem("struct", toks[k1 + 1].text, FALSE, is_pub, FALSE,
             toks[k], toks[k1 + 2], toks[k1 + 1])

\* [pub] const IDENT : IDENT = TOKEN ;  or  [pub] type IDENT = IDENT ;  or
\* [pub] trait IDENT { }  starting at token k: index after, or 0
DeclEnd(toks, k) ==
  LET k1 == IF Tk(toks, k) = KwPub THEN k + 1 ELSE k
  IN  IF /\ Tk(toks, k1) = KwConst
         /\ IsIdentTok(toks, k1 + 1)
         /\ Tk(toks, k1 + 2) = <<":">>
         /\ IsIdentTok(toks, k1 + 3)
         /\ Tk(toks, k1 + 4) = <<"=">>
         /\ Tk(toks, k1 + 5) = <<"1">>
         /\ Tk(toks, k1 + 6) = <<";">>
      THEN k1 + 7
      ELSE IF /\ Tk(toks, k1) = KwType
              /\ IsIdentTok(toks, k1 + 1)
              /\ Tk(toks, k1 + 2) = <<"=">>
              /\ IsIdentTok(toks, k1 + 3)
              /\ Tk(toks, k1 + 4) = <<";">>
      THEN k1 + 5
      ELSE IF /\ Tk(toks, k1) = KwTrait
              /\ IsIdentTok(toks, k1 + 1)
              /\ Tk(toks, k1 + 2) = <<"{">>
              /\ Tk(toks, k1 + 3) = <<"}">>
      THEN k1 + 4
      ELSE 0

DeclItem(toks, k) ==
  LET is_pub == Tk(toks, k) = KwPub
      k1 == IF is_pub THEN k + 1 ELSE k
      kind == IF Tk(toks, k1) = KwConst THEN "const"
              ELSE IF Tk(toks, k1) = KwType THEN "type" ELSE "trait"
  IN  MkItem(kind, toks[k1 + 1].text, FALSE, is_pub, FALSE,
             toks[k], toks[DeclEnd(toks, k) - 1], toks[k1 + 1])

\* outer attributes #[IDENT] starting at token k: index of the first token
\* after them
RECURSIVE AttrsEnd(_, _)
AttrsEnd(toks, k) ==
  IF /\ Tk(toks, k) = <<"#">>
     /\ Tk(toks, k + 1) = <<"[">>
     /\ IsIdentTok(toks, k + 2)
     /\ Tk(toks, k + 3) = <<"]">>
  THEN AttrsEnd(toks, k + 4) ELSE k

\* an item whose outer attributes start at token k and whose keyword starts
\* at token a: its span starts at its first attribute
WithAttrs(item, toks, k, a) ==
  [attrs |-> [j \in 1..((a - k) \div 4) |-> toks[k + 4 * (j - 1) + 2].text]]
  @@ [item EXCEPT !.sline = toks[k].line, !.scol = toks[k].col]

RECURSIVE ParseItems(_, _)
ParseItems(toks, k) ==
  IF k > Len(toks) THEN <<>>
  ELSE LET a == AttrsEnd(toks, k) IN
    IF StructEnd(toks, a) > 0
       THEN <<WithAttrs(StructItem(toks, a), toks, k, a)>>
            \o ParseItems(toks, StructEnd(toks, a))
    ELSE IF ImplEnd(toks, a) > 0
       THEN <<WithAttrs(ImplItem(toks, a), toks, k, a)>>
            \o ParseItems(toks, ImplEnd(toks, a))
    ELSE IF FnEnd(toks, a) > 0
       THEN <<WithAttrs(FnItem(toks, a), toks, k, a)>>
            \o ParseItems(toks, FnEnd(toks, a))
    ELSE IF DeclEnd(toks, a) > 0
       THEN <<WithAttrs(DeclItem(toks, a), toks, k, a)>>
            \o ParseItems(toks, DeclEnd(toks, a))
    ELSE <<ErrItem>>

\* identity of a syntax node: its kind, its name, and its rank among the
\* items of that kind and name (the k-th `impl A` of the file)
NodeId(items, k) ==
  <<items[k].kind, items[k].ident,
    Cardinality({j \in 1..k : /\ items[j].kind = items[k].kind
                              /\ items[j].ident = items[k].ident
                              /\ items[j].is_trait = items[k].is_trait})>>

\* syn::parse_file: the top-level items, or a syntax error
parse_file(content) ==
  LET items == ParseItems(Tokens(content), 1)
  IN  IF \E k \in 1..Len(items) : items[k].kind = "error"
      THEN [ok |-> FALSE, items |-> <<>>]
      ELSE [ok |-> TRUE,
            items |-> [k \in 1..Len(items) |->
                         [node |-> NodeId(items, k)] @@ items[k]]]

(***************************************************************************)
(* Violation / Fix records (mod.rs)                                        *)
(***************************************************************************)
NoFix == [none |-> TRUE]

Fix(start_byte, end_byte, replacement) ==
  [start_byte |-> start_byte, end_byte |-> end_byte, replacement |-> replacement]

\* `node` stands for the message: it names the construct the violation is about
Violation(rule, line, column, node, fix) ==
  [rule |-> rule, line |-> line, column |-> column, node |-> node, fix |-> fix]

HasFix(v) == v.fix # NoFix

\* Vec<Violation> filtered with |v| v.fix.is_none()
RECURSIVE FilterNoFix(_)
FilterNoFix(vs) ==
  IF vs = <<>> THEN <<>>
  ELSE IF HasFix(Head(vs)) THEN FilterNoFix(Tail(vs))
  ELSE <<Head(vs)>> \o FilterNoFix(Tail(vs))

RECURSIVE FilterHasFix(_)
FilterHasFix(vs) ==
  IF vs = <<>> THEN <<>>
  ELSE IF HasFix(Head(vs)) THEN <<Head(vs)>> \o FilterHasFix(Tail(vs))
  ELSE FilterHasFix(Tail(vs))

(***************************************************************************)
(* Line/column to byte offset, as every rule module defines it             *)
(***************************************************************************)
\* the char_indices loop of span_position_to_byte; -1 is None
RECURSIVE SpanScan(_, _, _, _, _, _)
SpanScan(content, i, current_line, line_start, line, column) ==
  CASE current_line = line -> line_start + column
    [] current_line # line /\ i >= Len(content) -> -1
    [] current_line # line /\ i < Len(content) /\ content[i + 1] = NL ->
         SpanScan(content, i + 1, current_line + 1, i + 1, line, column)
    [] OTHER -> SpanScan(content, i + 1, current_line, line_start, line, column)

span_position_to_byte(content, line, column) ==
  SpanScan(content, 0, 1, 0, line, column)

find_line_start(content, pos) ==
  LET i == RFindBefore(content, NL, pos) IN IF i >= 0 THEN i + 1 ELSE 0

find_line_end(content, pos) ==
  LET i == FindFrom(content, <<NL>>, pos) IN IF i >= 0 THEN i ELSE Len(content)

(***************************************************************************)
(* skip.rs: suppression comments                                           *)
(***************************************************************************)
SkipBracketPrefix ==
  <<"#","[","c","o","d","e","s","t","y","l","e",":",":","s","k","i","p">>
SkipAtPrefix ==
  <<"@","c","o","d","e","s","t","y","l","e",":",":","s","k","i","p">>

NoMarker == [kind |-> "none"]
SkipAll == [kind |-> "all"]
SkipRule(name) == [kind |-> "rule", name |-> name]

parse_skip_suffix(rest0) ==
  LET rest == trim_start(rest0)
  IN  IF rest = <<>> \/ starts_with(rest, <<"]">>) THEN SkipAll
      ELSE IF starts_with(rest, <<"(">>) THEN
        LET after_paren == Tail(rest)
            end == find(after_paren, <<")">>)
        IN  IF end < 0 THEN NoMarker
            ELSE LET rule_name == trim(Slice(after_paren, 0, end))
                 IN  IF rule_name # <<>> THEN SkipRule(rule_name) ELSE NoMarker
      ELSE NoMarker

parse_skip_comment(line) ==
  LET trimmed == trim(line)
  IN  IF ~starts_with(trimmed, <<"/", "/">>) THEN NoMarker
      ELSE LET after_slashes == trim_start(SliceFrom(trimmed, 2))
           IN  IF starts_with(after_slashes, SkipBracketPrefix)
               THEN parse_skip_suffix(SliceFrom(after_slashes, Len(SkipBracketPrefix)))
               ELSE IF starts_with(after_slashes, SkipAtPrefix)
               THEN parse_skip_suffix(SliceFrom(after_slashes, Len(SkipAtPrefix)))
               ELSE NoMarker

get_skip_marker_at_line(content, line) ==
  LET ls == lines(content)
      cur == IF line > 0 /\ line <= Len(ls) THEN parse_skip_comment(ls[line]) ELSE NoMarker
  IN  IF cur # NoMarker THEN cur
      ELSE IF line > 1 THEN parse_skip_comment(ls[line - 1])
      ELSE NoMarker

has_skip_marker_for_rule_at_line(content, line, rule) ==
  LET m == get_skip_marker_at_line(content, line)
  IN  \/ m = SkipAll
      \/ m.kind = "rule" /\ m.name = rule

(***************************************************************************)
(* join_split_impls.rs                                                     *)
(***************************************************************************)
\* find_impl_brace: offset of the first "{" outside comments, or -1
RECURSIVE FindImplBraceFrom(_, _, _, _)
FindImplBraceFrom(text, i, in_block_comment, in_line_comment) ==
  IF i >= Len(text) THEN -1
  ELSE LET ch == text[i + 1]
           next_is(c) == i + 1 < Len(text) /\ text[i + 2] = c
       IN  IF ~in_block_comment /\ ~in_line_comment THEN
             IF ch = "/" /\ next_is("*") THEN FindImplBraceFrom(text, i + 2, TRUE, FALSE)
             ELSE IF ch = "/" /\ next_is("/") THEN FindImplBraceFrom(text, i + 2, FALSE, TRUE)
             ELSE IF ch = "{" THEN i
             ELSE FindImplBraceFrom(text, i + 1, FALSE, FALSE)
           ELSE IF in_block_comment THEN
             IF ch = "*" /\ next_is("/") THEN FindImplBraceFrom(text, i + 2, FALSE, in_line_comment)
             ELSE FindImplBraceFrom(text, i + 1, TRUE, in_line_comment)
           ELSE IF ch = NL THEN FindImplBraceFrom(text, i + 1, FALSE, FALSE)
           ELSE FindImplBraceFrom(text, i + 1, FALSE, TRUE)

find_impl_brace(text) == FindImplBraceFrom(text, 0, FALSE, FALSE)

IsBlankLine(l) == trim(l) = <<>>

strip_blank_lines(text) ==
  LET ls == lines(text)
      nonblank == {k \in 1..Len(ls) : ~IsBlankLine(ls[k])}
      start == IF nonblank = {} THEN 1 ELSE CHOOSE k \in nonblank : \A j \in nonblank : k <= j
      end == IF nonblank = {} THEN Len(ls) ELSE CHOOSE k \in nonblank : \A j \in nonblank : k >= j
  IN  JoinWith(SubSeq(ls, start, end), <<NL>>)

\* the ImplBlockInfo of one inherent impl item, or a record with ok = FALSE
\* where the loop body `continue`s
JoinBlockInfo(content, item) ==
  LET start_byte == span_position_to_byte(content, item.sline, item.scol)
      end_byte == span_position_to_byte(content, item.eline, item.ecol)
      impl_text == Slice(content, start_byte, end_byte)
      brace_open_offset == find_impl_brace(impl_text)
      brace_close_offset == rfind(impl_text, "}")
      brace_open_byte == start_byte + brace_open_offset
      brace_close_byte == start_byte + brace_close_offset
  IN  IF item.kind # "impl" \/ item.is_trait THEN [ok |-> FALSE]
      ELSE IF start_byte < 0 \/ end_byte < 0 THEN [ok |-> FALSE]
      ELSE IF brace_open_offset < 0 \/ brace_close_offset < 0 THEN [ok |-> FALSE]
      ELSE [ok |-> TRUE, type_name |-> item.ident, start_line |-> item.sline,
            start_byte |-> start_byte, end_byte |-> end_byte,
            brace_open_byte |-> brace_open_byte,
            items_text |-> Slice(content, brace_open_byte + 1, brace_close_byte)]

\* inherent_impls[type_name]: the blocks of one type, in file order
RECURSIVE JoinBlocksOf(_, _, _)
JoinBlocksOf(content, items, type_name) ==
  IF items = <<>> THEN <<>>
  ELSE LET b == JoinBlockInfo(content, Head(items))
       IN  IF b.ok /\ b.type_name = type_name
           THEN <<b>> \o JoinBlocksOf(content, Tail(items), type_name)
           ELSE JoinBlocksOf(content, Tail(items), type_name)

RECURSIVE JoinItemsParts(_)
JoinItemsParts(blocks) ==
  IF blocks = <<>> THEN <<>>
  ELSE LET stripped == strip_blank_lines(Head(blocks).items_text)
       IN  IF stripped # <<>> THEN <<stripped>> \o JoinItemsParts(Tail(blocks))
           ELSE JoinItemsParts(Tail(blocks))

\* a merge that forgets the code between the blocks
JoinBetweenSectionsDropped(content, blocks, i) == <<>>

RECURSIVE JoinBetweenSections(_, _, _)
JoinBetweenSections(content, blocks, i) ==
  IF i >= Len(blocks) THEN <<>>
  ELSE LET trimmed == trim(Slice(content, blocks[i].end_byte, blocks[i + 1].start_byte))
       IN  IF trimmed # <<>>
           THEN <<trimmed>> \o JoinBetweenSections(content, blocks, i + 1)
           ELSE JoinBetweenSections(content, blocks, i + 1)

\* the violation reported for one type with two or more inherent blocks
JoinViolation(content, blocks) ==
  LET first == blocks[1]
      last == blocks[Len(blocks)]
      all_items_parts == JoinItemsParts(blocks)
      between_sections == JoinBetweenSections(content, blocks, 1)
      impl_header == Slice(content, first.start_byte, first.brace_open_byte + 1)
      replacement ==
        impl_header \o <<NL>> \o JoinWith(all_items_parts, <<NL>>) \o <<NL>> \o <<"}">>
        \o (IF between_sections # <<>>
            THEN <<NL, NL>> \o JoinWith(between_sections, <<NL, NL>>) ELSE <<>>)
  IN  Violation("join-split-impls", blocks[2].start_line, 0,
                <<"type", first.type_name>>,
                Fix(first.start_byte, last.end_byte, replacement))

JoinTypeNames(content, items) ==
  {items[k].ident : k \in {j \in 1..Len(items) : JoinBlockInfo(content, items[j]).ok}}

\* join_split_impls::check.  The code walks a HashMap, so the violations of
\* different types come in an unspecified order: the result is the set of
\* violations, and a caller that takes "the first" takes any of them.
join_split_impls_check(content, items) ==
  {JoinViolation(content, JoinBlocksOf(content, items, t)) :
     t \in {n \in JoinTypeNames(content, items) :
              Len(JoinBlocksOf(content, items, n)) >= 2}}

(***************************************************************************)
(* impl_follows_type.rs                                                    *)
(***************************************************************************)
RuleFollowsName ==
  <<"i","m","p","l","-","f","o","l","l","o","w","s","-","t","y","p","e">>

TypeDef(end_line, end_byte) == [end_line |-> end_line, end_byte |-> end_byte]

\* first pass: type_defs, a HashMap from type name to TypeDef (a later
\* definition of the same name replaces an earlier one)
RECURSIVE FollowsTypeDefs(_, _, _)
FollowsTypeDefs(content, items, type_defs) ==
  IF items = <<>> THEN type_defs
  ELSE LET item == Head(items)
           eb == span_position_to_byte(content, item.eline, item.ecol)
           end_byte == IF eb < 0 THEN 0 ELSE eb
       IN  IF item.kind = "struct"
           THEN FollowsTypeDefs(content, Tail(items),
                  (item.ident :> TypeDef(item.eline, end_byte)) @@ type_defs)
           ELSE FollowsTypeDefs(content, Tail(items), type_defs)

\* second pass: the ImplBlock records kept by the filter_map
RECURSIVE FollowsImplBlocks(_, _, _)
FollowsImplBlocks(content, items, type_defs) ==
  IF items = <<>> THEN <<>>
  ELSE LET item == Head(items)
           start_byte == span_position_to_byte(content, item.sline, item.scol)
           end_byte == span_position_to_byte(content, item.eline, item.ecol)
           keep == /\ item.kind = "impl"
                   /\ ~has_skip_marker_for_rule_at_line(content, item.sline, RuleFollowsName)
                   /\ ~item.is_trait
                   /\ item.ident \in DOMAIN type_defs
                   /\ start_byte >= 0
                   /\ end_byte >= 0
       IN  IF keep
           THEN <<[item |-> item, start_line |-> item.sline,
                   start_byte |-> start_byte, end_byte |-> end_byte]>>
                \o FollowsImplBlocks(content, Tail(items), type_defs)
           ELSE FollowsImplBlocks(content, Tail(items), type_defs)

create_relocation_fix(content, type_def, impl_block) ==
  LET impl_line_start == find_line_start(content, impl_block.start_byte)
      impl_text == Slice(content, impl_line_start, impl_block.end_byte)
      insert_pos == find_line_end(content, type_def.end_byte)
      between_text == Slice(content, insert_pos, impl_line_start)
  IN  IF trim(between_text) = <<>>
      THEN Fix(insert_pos, impl_block.end_byte,
               <<NL>> \o trim_start_matches_nl(impl_text))
      ELSE Fix(insert_pos, impl_block.end_byte,
               <<NL>> \o trim_start_matches_nl(impl_text) \o <<NL, NL>> \o trim(between_text))

\* the loop over impl_blocks, threading type_defs for chained impls
RECURSIVE FollowsLoop(_, _, _)
FollowsLoop(content, impl_blocks, type_defs) ==
  IF impl_blocks = <<>> THEN <<>>
  ELSE LET impl_block == Head(impl_blocks)
           type_name == impl_block.item.ident
           type_def == type_defs[type_name]
           expected_line == type_def.end_line + 1
           next_defs == (type_name :> TypeDef(impl_block.item.eline, impl_block.end_byte))
                        @@ type_defs
           rest == FollowsLoop(content, Tail(impl_blocks), next_defs)
       IN  IF impl_block.start_line > expected_line + 1
           THEN <<Violation("impl-follows-type", impl_block.start_line,
                            impl_block.item.scol, impl_block.item.node,
                            create_relocation_fix(content, type_def, impl_block))>> \o rest
           ELSE rest

\* a count that leaves out one of the blank lines
FollowsGapLessOne(type_def, impl_block) ==
  impl_block.start_line - type_def.end_line - 1 - 1

\* the number the message of each reported violation states:
\* "... but has {gap} blank line(s)"
FollowsGap(type_def, impl_block) == impl_block.start_line - type_def.end_line - 1

RECURSIVE FollowsGaps(_, _)
FollowsGaps(impl_blocks, type_defs) ==
  IF impl_blocks = <<>> THEN <<>>
  ELSE LET impl_block == Head(impl_blocks)
           type_def == type_defs[impl_block.item.ident]
           next_defs == (impl_block.item.ident :>
                           TypeDef(impl_block.item.eline, impl_block.end_byte))
                        @@ type_defs
           rest == FollowsGaps(Tail(impl_blocks), next_defs)
       IN  IF impl_block.start_line > type_def.end_line + 1 + 1
           THEN <<FollowsGap(type_def, impl_block)>> \o rest
           ELSE rest

impl_follows_type_gaps(content, items) ==
  LET type_defs == FollowsTypeDefs(content, items, <<>>)
  IN  FollowsGaps(FollowsImplBlocks(content, items, type_defs), type_defs)

impl_follows_type_check(content, items) ==
  LET type_defs == FollowsTypeDefs(content, items, <<>>)
  IN  FollowsLoop(content, FollowsImplBlocks(content, items, type_defs), type_defs)

(***************************************************************************)
(* impl_folds.rs                                                           *)
(***************************************************************************)
RuleFoldsName == <<"i","m","p","l","-","f","o","l","d","s">>

\* the first non-blank line after the impl block starts with CLOSE_MARKER
RECURSIVE FirstNonBlankIsClose(_)
FirstNonBlankIsClose(ls) ==
  IF ls = <<>> THEN FALSE
  ELSE IF trim(Head(ls)) = <<>> THEN FirstNonBlankIsClose(Tail(ls))
  ELSE starts_with(trim(Head(ls)), CLOSE_MARKER)

check_close_marker_after_impl(content, impl_end_byte) ==
  FirstNonBlankIsClose(lines(SliceFrom(content, impl_end_byte)))

\* trim_end_matches(|c| c != '\n' && c.is_whitespace())
RECURSIVE TrimEndBlanks(_)
TrimEndBlanks(s) ==
  IF s # <<>> /\ s[Len(s)] # NL /\ IsWs(s[Len(s)])
  THEN TrimEndBlanks(SubSeq(s, 1, Len(s) - 1)) ELSE s

generate_fix(content, start_byte, end_byte, brace_open_offset, has_open, has_close) ==
  LET impl_text == Slice(content, start_byte, end_byte)
      before_brace == Slice(impl_text, 0, brace_open_offset)
      after_brace == SliceFrom(impl_text, brace_open_offset)
      brace_on_new_line == ends_with(TrimEndBlanks(before_brace), <<NL>>)
      new_impl ==
        IF ~has_open
        THEN trim_end(before_brace)
             \o (IF brace_on_new_line
                 THEN <<NL>> \o OPEN_MARKER \o <<" ">>
                 ELSE <<" ">> \o OPEN_MARKER \o <<" ">>)
             \o after_brace
        ELSE impl_text
  IN  IF ~has_close
      THEN Fix(start_byte, end_byte, new_impl \o <<NL>> \o CLOSE_MARKER \o <<NL>>)
      ELSE Fix(start_byte, end_byte, new_impl)

\* the body of the loop over file.items: zero or one violation for one item
FoldsItem(content, item) ==
  LET start_byte == span_position_to_byte(content, item.sline, item.scol)
      end_byte == span_position_to_byte(content, item.eline, item.ecol)
      impl_text == Slice(content, start_byte, end_byte)
      has_open_marker == contains(impl_text, OPEN_MARKER)
      marker_end == find(impl_text, OPEN_MARKER) + Len(OPEN_MARKER)
      brace_open_offset ==
        IF has_open_marker THEN FindFrom(impl_text, <<"{">>, marker_end)
        ELSE find(impl_text, <<"{">>)
      has_close_marker == check_close_marker_after_impl(content, end_byte)
  IN  IF item.kind # "impl" THEN <<>>
      ELSE IF has_skip_marker_for_rule_at_line(content, item.sline, RuleFoldsName) THEN <<>>
      ELSE IF item.is_trait THEN <<>>
      ELSE IF start_byte < 0 \/ end_byte < 0 THEN <<>>
      ELSE IF brace_open_offset < 0 THEN <<>>
      ELSE IF has_open_marker /\ has_close_marker THEN <<>>
      ELSE <<Violation("impl-folds", item.sline, item.scol, item.node,
                       generate_fix(content, start_byte, end_byte, brace_open_offset,
                                    has_open_marker, has_close_marker))>>

RECURSIVE impl_folds_check(_, _)
impl_folds_check(content, items) ==
  IF items = <<>> THEN <<>>
  ELSE FoldsItem(content, Head(items)) \o impl_folds_check(content, Tail(items))

(***************************************************************************)
(* pub_first.rs                                                            *)
(***************************************************************************)
\* the loop of find_item_text_start, from current_start upwards
RECURSIVE ItemTextStartFrom(_, _)
ItemTextStartFrom(content, current_start) ==
  IF current_start = 0 THEN 0
  ELSE LET prev_line_end == current_start - 1
           prev_line_start ==
             find_line_start(content, IF prev_line_end > 0 THEN prev_line_end - 1 ELSE 0)
           prev_line == trim_start(Slice(content, prev_line_start, prev_line_end))
       IN  IF starts_with(prev_line, <<"/", "/", "/">>) \/ starts_with(prev_line, <<"#", "[">>)
           THEN ItemTextStartFrom(content, prev_line_start)
           ELSE current_start

find_item_text_start(content, span_start) ==
  ItemTextStartFrom(content, find_line_start(content, span_start))

\* get_item_visibility_and_main: impl blocks are skipped
PubFirstTracked(item) == item.kind \in {"fn", "struct", "type", "const", "trait"}

RECURSIVE PubFirstItems(_, _)
PubFirstItems(content, items) ==
  IF items = <<>> THEN <<>>
  ELSE LET item == Head(items)
           span_start_byte == span_position_to_byte(content, item.sline, item.scol)
           span_end_byte == span_position_to_byte(content, item.eline, item.ecol)
           rest == PubFirstItems(content, Tail(items))
       IN  IF PubFirstTracked(item) /\ span_start_byte >= 0 /\ span_end_byte >= 0
           THEN <<[node |-> item.node,
                   is_pub |-> item.is_pub,
                   is_main_fn |-> item.kind = "fn" /\ item.ident = KwMain,
                   start_line |-> item.sline,
                   text_start |-> find_item_text_start(content, span_start_byte),
                   text_end |-> find_line_end(content, span_end_byte)]>> \o rest
           ELSE rest

\* variant: the byte after the item is taken for its newline without a look
create_move_fix_past_end(content, items, from_idx, to_idx) ==
  IF from_idx <= to_idx THEN NoFix
  ELSE LET from_item == items[from_idx]
           to_item == items[to_idx]
           item_text == Slice(content, from_item.text_start, from_item.text_end)
           remove_end == from_item.text_end + 1
           insert_pos == to_item.text_start
       IN  Fix(insert_pos, remove_end,
               item_text \o <<NL>> \o Slice(content, insert_pos, from_item.text_start))

create_move_fix(content, items, from_idx, to_idx) ==
  IF from_idx <= to_idx THEN NoFix
  ELSE LET from_item == items[from_idx]
           to_item == items[to_idx]
           item_text == Slice(content, from_item.text_start, from_item.text_end)
           remove_end ==
             IF from_item.text_end < Len(content) /\ content[from_item.text_end + 1] = NL
             THEN from_item.text_end + 1 ELSE from_item.text_end
           insert_pos == to_item.text_start
       IN  Fix(insert_pos, remove_end,
               item_text \o <<NL>> \o Slice(content, insert_pos, from_item.text_start))

\* least index in S, or 0
MinIdx(S) == IF S = {} THEN 0 ELSE CHOOSE i \in S : \A j \in S : i <= j

\* one of the three scans of check: `anchors` are the indices of the items
\* that set the remembered index, `movers` of the items reported once an
\* index is remembered
PubFirstScan(anchors, movers) ==
  LET first_anchor == MinIdx(anchors)
      hit == IF first_anchor = 0 THEN 0
             ELSE MinIdx({i \in movers : i >= first_anchor})
  IN  [from |-> hit, to |-> first_anchor]

PubFirstReport(content, items, sc) ==
  <<Violation("pub-first", items[sc.from].start_line, 0, items[sc.from].node,
              create_move_fix(content, items, sc.from, sc.to))>>

PubFirstCheckItems(content, items) ==
  LET idx == 1..Len(items)
      s1 == PubFirstScan({i \in idx : ~items[i].is_pub},
                         {i \in idx : items[i].is_pub})
      s2 == PubFirstScan({i \in idx : items[i].is_pub /\ ~items[i].is_main_fn},
                         {i \in idx : items[i].is_pub /\ items[i].is_main_fn})
      s3 == PubFirstScan({i \in idx : ~items[i].is_pub /\ ~items[i].is_main_fn},
                         {i \in idx : ~items[i].is_pub /\ items[i].is_main_fn})
  IN  IF items = <<>> THEN <<>>
      ELSE IF s1.from > 0 THEN PubFirstReport(content, items, s1)
      ELSE IF s2.from > 0 THEN PubFirstReport(content, items, s2)
      ELSE IF s3.from > 0 THEN PubFirstReport(content, items, s3)
      ELSE <<>>

pub_first_check(content, file_items) ==
  PubFirstCheckItems(content, PubFirstItems(content, file_items))

(***************************************************************************)
(* instrument.rs                                                           *)
(***************************************************************************)
FileName == "main.rs"

has_instrument_attr(func) ==
  \E j \in 1..Len(func.attrs) :
    func.attrs[j] = <<"i","n","s","t","r","u","m","e","n","t">>

RECURSIVE check_instrument(_)
check_instrument(fn_items) ==
  IF fn_items = <<>> THEN <<>>
  ELSE LET func == Head(fn_items)
           rest == check_instrument(Tail(fn_items))
       IN  IF ~func.is_async THEN rest
           ELSE IF has_instrument_attr(func) THEN rest
           ELSE IF FileName = "utils.rs" \/ func.ident = KwMain THEN rest
           ELSE <<Violation("instrument", func.id_line, func.id_col, func.node, NoFix)>>
                \o rest

(***************************************************************************)
(* mod.rs: options, parse_rust_file, rule orchestration                    *)
(***************************************************************************)
\* RustCheckOptions, restricted to the rules that can report on a file of
\* the modelled syntax.  The other rules (loops, embed_simple_vars,
\* insta_inline_snapshot, no_chrono, no_tokio_spawn, use_bail,
\* test_fn_prefix, ignored_error_comment) inspect function bodies, imports
\* and attributes, which these files do not have: they return no violation.
OptionFlags == {"instrument", "join_split_impls", "impl_follows_type",
                "impl_folds", "pub_first"}

\* parse_rust_file: None (ok = FALSE) on a syntax error
parse_rust_file(contents) ==
  LET tree == parse_file(contents)
  IN  [ok |-> tree.ok, contents |-> contents, items |-> tree.items]

RECURSIVE FnItems(_)
FnItems(items) ==
  IF items = <<>> THEN <<>>
  ELSE IF Head(items).kind = "fn" THEN <<Head(items)>> \o FnItems(Tail(items))
  ELSE FnItems(Tail(items))

\* the set of values `first_fix` can take when the `for v in ...` loop of one
\* rule ends; {} stands for None
FirstOfSeq(vs) ==
  LET fixable == FilterHasFix(vs)
  IN  IF fixable = <<>> THEN {} ELSE {fixable[1]}

FirstOfJoin(content, items) ==
  {v \in join_split_impls_check(content, items) : HasFix(v)}

\* a set of violations as a Vec, in some order
RECURSIVE SetToSeq(_)
SetToSeq(S) ==
  IF S = {} THEN <<>>
  ELSE LET x == CHOOSE y \in S : TRUE IN <<x>> \o SetToSeq(S \ {x})

\* the violations of every enabled rule, in the order run_assert and
\* collect_unfixable extend their Vec
AllViolations(info, o) ==
  (IF "instrument" \in o THEN check_instrument(FnItems(info.items)) ELSE <<>>)
  \o (IF "join_split_impls" \in o
      THEN SetToSeq(join_split_impls_check(info.contents, info.items)) ELSE <<>>)
  \o (IF "impl_follows_type" \in o
      THEN impl_follows_type_check(info.contents, info.items) ELSE <<>>)
  \o (IF "impl_folds" \in o
      THEN impl_folds_check(info.contents, info.items) ELSE <<>>)
  \o (IF "pub_first" \in o
      THEN pub_first_check(info.contents, info.items) ELSE <<>>)

\* variant: of the fixes of all enabled rules, the one that starts earliest
FirstFixEarliestStart(info, o) ==
  LET fixable == FilterHasFix(AllViolations(info, o))
      all == {fixable[k] : k \in 1..Len(fixable)}
  IN  {v \in all : \A w \in all : v.fix.start_byte <= w.fix.start_byte}

\* one `if first_fix.is_none() && opts.<rule> { for v in <rule>::check(..) .. }`
\* block: the rule is consulted only while first_fix is still None
Consult(first_fix_so_far, enabled, found) ==
  IF first_fix_so_far = {} /\ enabled THEN found ELSE first_fix_so_far

\* variant: impl_follows_type and impl_folds consulted before join_split_impls
FirstFixJoinLast(info, o) ==
  Consult(
    Consult(
      Consult(
        Consult(
          Consult({}, "instrument" \in o,
                  FirstOfSeq(check_instrument(FnItems(info.items)))),
          "impl_follows_type" \in o,
          FirstOfSeq(impl_follows_type_check(info.contents, info.items))),
        "impl_folds" \in o,
        FirstOfSeq(impl_folds_check(info.contents, info.items))),
      "join_split_impls" \in o,
      FirstOfJoin(info.contents, info.items)),
    "pub_first" \in o,
    FirstOfSeq(pub_first_check(info.contents, info.items)))

\* format_file_iteratively, "Find the first fixable violation": the rules in
\* call order; the result is the set of values first_fix can end with, {}
\* standing for None
FirstFix(info, o) ==
  Consult(
    Consult(
      Consult(
        Consult(
          Consult({}, "instrument" \in o,
                  FirstOfSeq(check_instrument(FnItems(info.items)))),
          "join_split_impls" \in o,
          FirstOfJoin(info.contents, info.items)),
        "impl_follows_type" \in o,
        FirstOfSeq(impl_follows_type_check(info.contents, info.items))),
      "impl_folds" \in o,
      FirstOfSeq(impl_folds_check(info.contents, info.items))),
    "pub_first" \in o,
    FirstOfSeq(pub_first_check(info.contents, info.items)))

collect_unfixable(info, o) == FilterNoFix(AllViolations(info, o))

(***************************************************************************)
(* Inputs: the files and option sets a run starts from                     *)
(***************************************************************************)
MaxInputLen == 31      \* longest file a run starts from, in bytes
MaxContentLen == 60    \* longest content the model follows a file to
MaxFixes == 4          \* fixed_count is counted up to this value

ItemTexts ==
  { <<"s","t","r","u","c","t"," ","A",";">>,
    <<"s","t","r","u","c","t"," ","B",";">>,
    <<"i","m","p","l"," ","A"," ","{","}">>,
    <<"i","m","p","l"," ","B"," ","{","}">>,
    <<"f","n"," ","f","(",")","{","\n","}">>,
    <<"p","u","b"," ","f","n"," ","g","(",")","{","}">>,
    <<"a","s","y","n","c"," ","f","n"," ","h","(",")","{","}">> }

Separators == { <<" ">>, <<"\n">>, <<"\n","\n","\n">> }

\* files of at most n items, items separated by one separator
RECURSIVE FilesOf(_)
FilesOf(n) ==
  IF n = 0 THEN {}
  ELSE LET prev == FilesOf(n - 1)
       IN  {t \in ItemTexts : Len(t) <= MaxInputLen}
           \cup prev
           \cup {f \o sep \o t : f \in prev, sep \in Separators,
                   t \in {x \in ItemTexts : TRUE}}

InputFiles == {f \in FilesOf((MaxInputLen + 1) \div 10) : Len(f) <= MaxInputLen}

OptionSets ==
  { {"impl_follows_type", "impl_folds"},
    OptionFlags }

(***************************************************************************)
(* State                                                                   *)
(***************************************************************************)
VARIABLES
  opts,        \* the enabled rules of this run
  disk,        \* content of the file format_file_iteratively works on
  pc,          \* position in run_format / format_file_iteratively
  info,        \* FileInfo returned by the last parse_rust_file
  first_fix,   \* the violation (with its Fix) selected in this round
  fixed_count, \* fixes written to this file (format_file_iteratively)
  unfixable,   \* violations returned by format_file_iteratively
  outcome,     \* how format_file_iteratively left its loop
  exit_code,   \* return value of run_format / run_assert
  run,         \* 1 for the first run_format call, 2 for the repeated one
  writes,      \* history: fs::write calls since the last parse
  passes,      \* history: collect_unfixable calls in this run
  first_run    \* history: outcome and file content of the first run

\* a run over a source directory of several files (run_format, run_assert)
VARIABLES
  mode,                 \* "format" or "assert"
  tree,                 \* path -> content of the files the run is not working on
  tree0,                \* history: the tree the run started from
  file_paths,           \* run_format: the collected paths not yet formatted
  cur,                  \* path of the file format_file_iteratively works on
  run_fixed_count,      \* run_format: fixed_count
  unfixable_violations, \* run_format: unfixable_violations; run_assert: all_violations
  done,                 \* history: path -> outcome of its format_file_iteratively
  stdout,               \* lines printed with println!
  stderr                \* lines printed with eprintln!

\* one call of a function of the rules on given arguments
VARIABLES
  call,        \* the function called, "" before the call
  args,        \* its arguments
  result       \* what it returned

loop_vars == <<opts, disk, pc, info, first_fix, fixed_count, unfixable, outcome,
               exit_code, run, writes, passes, first_run>>

run_vars == <<mode, tree, tree0, file_paths, cur, run_fixed_count,
              unfixable_violations, done>>

out_vars == <<stdout, stderr>>

call_vars == <<call, args, result>>

vars == <<loop_vars, run_vars, out_vars, call_vars>>

NoInfo == [ok |-> FALSE, contents |-> <<>>, items |-> <<>>]
NoViolation == Violation("", 0, 0, <<>>, NoFix)

LoopIdle ==
  /\ opts = {}
  /\ disk = <<>>
  /\ pc = "start"
  /\ info = NoInfo
  /\ first_fix = NoViolation
  /\ fixed_count = 0
  /\ unfixable = <<>>
  /\ outcome = "running"
  /\ exit_code = -1
  /\ run = 1
  /\ writes = 0
  /\ passes = 0
  /\ first_run = [outcome |-> "running", disk |-> <<>>, fixed_count |-> 0]

NoResult == [none |-> TRUE]

RunIdle ==
  /\ mode = "format"
  /\ tree = <<>>
  /\ tree0 = <<>>
  /\ file_paths = <<>>
  /\ cur = FileName
  /\ run_fixed_count = 0
  /\ unfixable_violations = <<>>
  /\ done = <<>>

OutIdle ==
  /\ stdout = <<>>
  /\ stderr = <<>>

CallIdle ==
  /\ call = ""
  /\ args = NoResult
  /\ result = NoResult

Init == LoopIdle /\ RunIdle /\ OutIdle /\ CallIdle

(***************************************************************************)
(* format_file_iteratively                                                 *)
(***************************************************************************)
\* run_format calls format_file_iteratively(file_path, opts) on a file
Start ==
  /\ pc = "start"
  /\ opts' \in OptionSets
  /\ disk' \in InputFiles
  /\ pc' = "parse"
  /\ UNCHANGED <<info, first_fix, fixed_count, unfixable, outcome, exit_code,
                 run, writes, passes, first_run>>
  /\ UNCHANGED <<run_vars, out_vars, call_vars>>

\* eprintln!("Failed to parse file {path:?}: {e}") of parse_rust_file; the
\* parser's error text e is not modelled
ParseFailureLine(path) == <<"Failed to parse file ", path>>

\* `let Some(info) = parse_rust_file(..) else { break }`
ParseFile ==
  /\ pc = "parse"
  /\ info' = parse_rust_file(disk)
  /\ writes' = 0
  /\ IF info'.ok
     THEN /\ pc' = "check"
          /\ UNCHANGED <<outcome, unfixable>>
     ELSE /\ pc' = "returned"
          /\ outcome' = "parse_failed"
          /\ unfixable' = <<>>
  /\ stderr' = IF info'.ok THEN stderr ELSE Append(stderr, ParseFailureLine(cur))
  /\ UNCHANGED <<opts, disk, first_fix, fixed_count, exit_code, run, passes, first_run>>
  /\ UNCHANGED <<run_vars, stdout, call_vars>>

\* variant: the unfixable violations are collected in every round
FindFixCollecting ==
  /\ pc = "check"
  /\ \E v \in FirstFix(info, opts) :
       first_fix' = v
  /\ unfixable' = unfixable \o collect_unfixable(info, opts)
  /\ passes' = passes + 1
  /\ pc' = "apply"
  /\ UNCHANGED <<opts, disk, info, fixed_count, outcome, exit_code,
                 run, writes, first_run>>
  /\ UNCHANGED <<run_vars, out_vars, call_vars>>

\* a rule yields a violation with a fix: it becomes first_fix
FindFix ==
  /\ pc = "check"
  /\ \E v \in FirstFix(info, opts) :
       first_fix' = v
  /\ pc' = "apply"
  /\ UNCHANGED <<opts, disk, info, fixed_count, unfixable, outcome, exit_code,
                 run, writes, passes, first_run>>
  /\ UNCHANGED <<run_vars, out_vars, call_vars>>

\* variant: the loop also returns once it has written a fix
FinalPassAfterOneFix ==
  /\ pc = "check"
  /\ FirstFix(info, opts) = {} \/ fixed_count >= 1
  /\ unfixable' = collect_unfixable(info, opts)
  /\ passes' = passes + 1
  /\ outcome' = "final_pass"
  /\ pc' = "returned"
  /\ UNCHANGED <<opts, disk, info, first_fix, fixed_count, exit_code, run,
                 writes, first_run>>
  /\ UNCHANGED <<run_vars, out_vars, call_vars>>

\* no rule yields a fix: `return (fixed_count, collect_unfixable(&info, opts))`
FinalPass ==
  /\ pc = "check"
  /\ FirstFix(info, opts) = {}
  /\ unfixable' = collect_unfixable(info, opts)
  /\ passes' = passes + 1
  /\ outcome' = "final_pass"
  /\ pc' = "returned"
  /\ UNCHANGED <<opts, disk, info, first_fix, fixed_count, exit_code, run,
                 writes, first_run>>
  /\ UNCHANGED <<run_vars, out_vars, call_vars>>

\* `fix.start_byte <= info.contents.len() && fix.end_byte <= info.contents.len()`
InBounds(fix, contents) ==
  fix.start_byte <= Len(contents) /\ fix.end_byte <= Len(contents)

NewContent(contents, fix) ==
  replace_range(contents, fix.start_byte, fix.end_byte, fix.replacement)

Min(a, b) == IF a <= b THEN a ELSE b

\* variant: after the write the loop goes on with the rules on the FileInfo
\* it already holds, without reading the file again
ApplyFixNoReparse ==
  /\ pc = "apply"
  /\ InBounds(first_fix.fix, info.contents)
  /\ Len(NewContent(info.contents, first_fix.fix)) <= MaxContentLen
  /\ disk' = NewContent(info.contents, first_fix.fix)
  /\ fixed_count' = Min(fixed_count + 1, MaxFixes)
  /\ writes' = writes + 1
  /\ pc' = "check"
  /\ UNCHANGED <<opts, info, first_fix, unfixable, outcome, exit_code, run,
                 passes, first_run>>
  /\ UNCHANGED <<run_vars, out_vars, call_vars>>

\* the bounds check passes and fs::write succeeds: `continue`
ApplyFix ==
  /\ pc = "apply"
  /\ InBounds(first_fix.fix, info.contents)
  /\ Len(NewContent(info.contents, first_fix.fix)) <= MaxContentLen
  /\ disk' = NewContent(info.contents, first_fix.fix)
  /\ fixed_count' = Min(fixed_count + 1, MaxFixes)
  /\ writes' = writes + 1
  /\ pc' = "parse"
  /\ UNCHANGED <<opts, info, first_fix, unfixable, outcome, exit_code, run,
                 passes, first_run>>
  /\ UNCHANGED <<run_vars, out_vars, call_vars>>

\* the bounds check fails or fs::write returns an error: `break`
AbortFix ==
  /\ pc = "apply"
  /\ \E write_ok \in BOOLEAN : ~(InBounds(first_fix.fix, info.contents) /\ write_ok)
  /\ unfixable' = <<>>
  /\ outcome' = IF InBounds(first_fix.fix, info.contents)
                THEN "write_failed" ELSE "out_of_bounds"
  /\ pc' = "returned"
  /\ UNCHANGED <<opts, disk, info, first_fix, fixed_count, exit_code, run,
                 writes, passes, first_run>>
  /\ UNCHANGED <<run_vars, out_vars, call_vars>>

\* the new content is longer than the model follows: the file is left here
OutgrowModel ==
  /\ pc = "apply"
  /\ InBounds(first_fix.fix, info.contents)
  /\ Len(NewContent(info.contents, first_fix.fix)) > MaxContentLen
  /\ pc' = "outgrown"
  /\ UNCHANGED <<opts, disk, info, first_fix, fixed_count, unfixable, outcome,
                 exit_code, run, writes, passes, first_run>>
  /\ UNCHANGED <<run_vars, out_vars, call_vars>>

(***************************************************************************)
(* run_format                                                              *)
(***************************************************************************)
ExitCode(count, remaining) ==
  IF count = 0 /\ remaining = <<>> THEN 0
  ELSE IF remaining # <<>> THEN 1 ELSE 0

\* a violation as its rule reports it for the file at `path`
InFile(path, v) == [file |-> path, violation |-> v]

RECURSIVE AllInFile(_, _)
AllInFile(path, vs) ==
  IF vs = <<>> THEN <<>>
  ELSE <<InFile(path, Head(vs))>> \o AllInFile(path, Tail(vs))

\* eprintln!("  [{}] {}:{}:{}: {}", v.rule, v.file, v.line, v.column, v.message);
\* the message text is not modelled
ViolationLine(fv) ==
  <<"  ", "[", fv.violation.rule, "] ", fv.file, ":", fv.violation.line, ":",
    fv.violation.column, ": ", "message">>

RECURSIVE ViolationLines(_)
ViolationLines(fvs) ==
  IF fvs = <<>> THEN <<>>
  ELSE <<ViolationLine(Head(fvs))>> \o ViolationLines(Tail(fvs))

\* what run_format prints with println!
FormatStdout(count, remaining) ==
  IF count = 0 /\ remaining = <<>>
  THEN << <<"codestyle: all checks passed, nothing to format">> >>
  ELSE IF count > 0
       THEN << <<"codestyle: fixed ", count, " violation(s)">> >>
       ELSE <<>>

\* what run_format prints with eprintln!: the header ends with "\n", which
\* leaves an empty line before the violations
FormatStderr(count, remaining) ==
  IF remaining = <<>> THEN <<>>
  ELSE << <<"codestyle: ", Len(remaining), " violation(s) need manual fixing:">>,
          <<>> >>
       \o ViolationLines(remaining)

Finish ==
  /\ pc = "returned"
  /\ exit_code' = ExitCode(fixed_count, unfixable)
  /\ stdout' = stdout \o FormatStdout(fixed_count, AllInFile(cur, unfixable))
  /\ stderr' = stderr \o FormatStderr(fixed_count, AllInFile(cur, unfixable))
  /\ pc' = "exited"
  /\ UNCHANGED <<opts, disk, info, first_fix, fixed_count, unfixable, outcome,
                 run, writes, passes, first_run>>
  /\ UNCHANGED <<run_vars, call_vars>>

\* run_format is called again on the files the first call left
SecondRun ==
  /\ pc = "exited"
  /\ run = 1
  /\ run' = 2
  /\ first_run' = [outcome |-> outcome, disk |-> disk, fixed_count |-> fixed_count]
  /\ pc' = "parse"
  /\ fixed_count' = 0
  /\ unfixable' = <<>>
  /\ outcome' = "running"
  /\ exit_code' = -1
  /\ passes' = 0
  /\ writes' = 0
  /\ stdout' = <<>>
  /\ stderr' = <<>>
  /\ UNCHANGED <<opts, disk, info, first_fix>>
  /\ UNCHANGED <<run_vars, call_vars>>

Next ==
  \/ Start
  \/ ParseFile
  \/ FindFix
  \/ FinalPass
  \/ ApplyFix
  \/ AbortFix
  \/ OutgrowModel
  \/ Finish
  \/ SecondRun

Spec == Init /\ [][Next]_vars

PcStates ==
  {"start", "parse", "check", "apply", "returned", "exited", "outgrown"}

\* the states in which run_format has a next step: Next is enabled exactly
\* in these, and every step of Next changes pc
Running ==
  \/ pc \in {"start", "parse", "check", "apply", "returned"}
  \/ pc = "exited" /\ run = 1

Step == Running /\ pc' \in PcStates \ {pc}

\* the process is not suspended for ever: while it has a next step, it takes one
FairSpec == Spec /\ WF_pc(Step)

(***************************************************************************)
(* run_format and run_assert over a source directory of several files      *)
(***************************************************************************)
MaxRunFileLen == 19    \* longest file of the source directory, in bytes

\* the .rs files of the source directory, in the order WalkDir yields them
Paths == <<"a.rs", "b.rs">>

\* files with a syntax error
BrokenFiles ==
  { <<"f","n"," ","f","(","{">>,
    <<"s","t","r","u","c","t"," ",";">> }

\* files that are clean, fixable, not fixable by the tool, broken, broken by
\* a fix, and growing with every fix
SiblingFiles ==
  { <<"s","t","r","u","c","t"," ","A",";">>,
    <<"i","m","p","l"," ","A"," ","{","}"," ","i","m","p","l"," ","A"," ","{","}">>,
    <<"a","s","y","n","c"," ","f","n"," ","h","(",")","{","}">>,
    <<"f","n"," ","f","(","{">>,
    <<"s","t","r","u","c","t"," ","A",";","\n","\n","\n",
      "f","n"," ","f","(",")","{","\n","}"," ","i","m","p","l"," ","A"," ","{","}">>,
    <<"s","t","r","u","c","t"," ","A",";","\n","i","m","p","l"," ","A"," ","{","}","\n",
      "i","m","p","l"," ","A"," ","{","}">> }

RunFiles ==
  {f \in InputFiles : Len(f) <= MaxRunFileLen} \cup BrokenFiles \cup SiblingFiles

PathSet == {Paths[k] : k \in 1..Len(Paths)}

Trees == {t \in [PathSet -> RunFiles] : \E p \in PathSet : t[p] \in SiblingFiles}

\* variant: the walk ends at the first file that does not parse
RECURSIVE collect_rust_files_until_failure(_, _)
collect_rust_files_until_failure(t, paths) ==
  IF paths = <<>> THEN <<>>
  ELSE IF parse_rust_file(t[Head(paths)]).ok
       THEN <<Head(paths)>> \o collect_rust_files_until_failure(t, Tail(paths))
       ELSE <<>>

\* collect_rust_files: the files that parse, in walk order
RECURSIVE collect_rust_files(_, _)
collect_rust_files(t, paths) ==
  IF paths = <<>> THEN <<>>
  ELSE IF parse_rust_file(t[Head(paths)]).ok
       THEN <<Head(paths)>> \o collect_rust_files(t, Tail(paths))
       ELSE collect_rust_files(t, Tail(paths))

\* what parse_rust_file prints while collect_rust_files walks the directory
RECURSIVE CollectStderr(_, _)
CollectStderr(t, paths) ==
  IF paths = <<>> THEN <<>>
  ELSE IF parse_rust_file(t[Head(paths)]).ok
       THEN CollectStderr(t, Tail(paths))
       ELSE <<ParseFailureLine(Head(paths))>> \o CollectStderr(t, Tail(paths))

\* run_assert: `for info in &file_infos { all_violations.extend(..) }`
RECURSIVE AssertViolations(_, _, _)
AssertViolations(t, paths, o) ==
  IF paths = <<>> THEN <<>>
  ELSE AllInFile(Head(paths), AllViolations(parse_rust_file(t[Head(paths)]), o))
       \o AssertViolations(t, Tail(paths), o)

\* what run_assert prints with println!
AssertStdout(all_violations) ==
  IF all_violations = <<>> THEN << <<"codestyle: all checks passed">> >> ELSE <<>>

\* what run_assert prints with eprintln!
AssertStderr(all_violations) ==
  IF all_violations = <<>> THEN <<>>
  ELSE << <<"codestyle: found ", Len(all_violations), " violation(s):">>, <<>> >>
       \o ViolationLines(all_violations)

\* variant: the exit code does not depend on the violations
AssertExitCodeZero(all_violations) == 0

AssertExitCode(all_violations) == IF all_violations = <<>> THEN 0 ELSE 1

\* run_format or run_assert is called on a source directory
RunStart ==
  /\ pc = "start"
  /\ mode' \in {"format", "assert"}
  /\ opts' \in OptionSets
  /\ tree' \in Trees
  /\ tree0' = tree'
  /\ done' = [p \in {} |-> ""]
  /\ pc' = "collect"
  /\ UNCHANGED <<disk, info, first_fix, fixed_count, unfixable, outcome,
                 exit_code, run, writes, passes, first_run>>
  /\ UNCHANGED <<file_paths, cur, run_fixed_count, unfixable_violations>>
  /\ UNCHANGED <<out_vars, call_vars>>

\* run_assert, whole: collect the files, run the enabled rules on each,
\* report
RunAssert ==
  /\ pc = "collect"
  /\ mode = "assert"
  /\ unfixable_violations' =
       AssertViolations(tree, collect_rust_files(tree, Paths), opts)
  /\ stdout' = stdout \o AssertStdout(unfixable_violations')
  /\ stderr' = stderr \o CollectStderr(tree, Paths)
                      \o AssertStderr(unfixable_violations')
  /\ exit_code' = AssertExitCode(unfixable_violations')
  /\ pc' = "exited"
  /\ UNCHANGED <<opts, disk, info, first_fix, fixed_count, unfixable, outcome,
                 run, writes, passes, first_run>>
  /\ UNCHANGED <<mode, tree, tree0, file_paths, cur, run_fixed_count, done>>
  /\ UNCHANGED call_vars

\* run_format: `collect_rust_files(&src_dir).into_iter().map(|f| f.path).collect()`
CollectPaths ==
  /\ pc = "collect"
  /\ mode = "format"
  /\ file_paths' = collect_rust_files(tree, Paths)
  /\ stderr' = stderr \o CollectStderr(tree, Paths)
  /\ pc' = "next_file"
  /\ UNCHANGED <<opts, disk, info, first_fix, fixed_count, unfixable, outcome,
                 exit_code, run, writes, passes, first_run>>
  /\ UNCHANGED <<mode, tree, tree0, cur, run_fixed_count, unfixable_violations,
                 done, stdout>>
  /\ UNCHANGED call_vars

\* run_format: `for file_path in file_paths { format_file_iteratively(..) }`
NextFile ==
  /\ pc = "next_file"
  /\ file_paths # <<>>
  /\ cur' = Head(file_paths)
  /\ file_paths' = Tail(file_paths)
  /\ disk' = tree[Head(file_paths)]
  /\ fixed_count' = 0
  /\ unfixable' = <<>>
  /\ outcome' = "running"
  /\ writes' = 0
  /\ passes' = 0
  /\ pc' = "parse"
  /\ UNCHANGED <<opts, info, first_fix, exit_code, run, first_run>>
  /\ UNCHANGED <<mode, tree, tree0, run_fixed_count, unfixable_violations, done>>
  /\ UNCHANGED <<out_vars, call_vars>>

\* format_file_iteratively returns: `fixed_count += file_fixed;
\* unfixable_violations.extend(file_unfixable)`
FileDone ==
  /\ pc = "returned"
  /\ tree' = [tree EXCEPT ![cur] = disk]
  /\ run_fixed_count' = Min(run_fixed_count + fixed_count, MaxFixes)
  /\ unfixable_violations' = unfixable_violations \o AllInFile(cur, unfixable)
  /\ done' = [p \in DOMAIN done \cup {cur} |-> IF p = cur THEN outcome ELSE done[p]]
  /\ pc' = "next_file"
  /\ UNCHANGED <<opts, disk, info, first_fix, fixed_count, unfixable, outcome,
                 exit_code, run, writes, passes, first_run>>
  /\ UNCHANGED <<mode, tree0, file_paths, cur>>
  /\ UNCHANGED <<out_vars, call_vars>>

\* run_format: the summary and the exit code
RunFinish ==
  /\ pc = "next_file"
  /\ file_paths = <<>>
  /\ exit_code' = ExitCode(run_fixed_count, unfixable_violations)
  /\ stdout' = stdout \o FormatStdout(run_fixed_count, unfixable_violations)
  /\ stderr' = stderr \o FormatStderr(run_fixed_count, unfixable_violations)
  /\ pc' = "exited"
  /\ UNCHANGED <<opts, disk, info, first_fix, fixed_count, unfixable, outcome,
                 run, writes, passes, first_run>>
  /\ UNCHANGED <<run_vars, call_vars>>

RunNext ==
  \/ RunStart
  \/ RunAssert
  \/ CollectPaths
  \/ NextFile
  \/ ParseFile
  \/ FindFix
  \/ FinalPass
  \/ ApplyFix
  \/ AbortFix
  \/ OutgrowModel
  \/ FileDone
  \/ RunFinish

RunSpec == Init /\ [][RunNext]_vars

(***************************************************************************)
(* The rules on one file with suppression markers (one round of run_assert) *)
(***************************************************************************)
MaxSkipLines == 3      \* most pieces a checked file is made of

\* pieces of a file: marker comments, an attribute line, items
SkipPieces ==
  {<<"/","/","#","[","c","o","d","e","s","t","y","l","e",":",":","s","k","i",
     "p","]">>,
   <<"/","/","@","c","o","d","e","s","t","y","l","e",":",":","s","k","i","p",
     "(","i","m","p","l","-","f","o","l","d","s",")">>,
   <<"#","[","a","]">>,
   <<"s","t","r","u","c","t"," ","A",";">>,
   <<"i","m","p","l"," ","A"," ","{","}">>,
   <<"i","m","p","l"," ","B"," ","{","}">>,
   <<"#","[","a","]","\n","i","m","p","l"," ","A"," ","{","}">>,
   <<"f","n"," ","f","(",")","{","\n","}">>,
   <<"p","u","b"," ","f","n"," ","g","(",")","{","}">>,
   <<"a","s","y","n","c"," ","f","n"," ","h","(",")","{","}">>,
   <<"i","m","p","l"," ","A"," ","{","}"," ","i","m","p","l"," ","B"," ","{",
     "}">> }

\* files of at most n pieces, one piece per line
RECURSIVE SkipFilesOf(_)
SkipFilesOf(n) ==
  IF n = 0 THEN {}
  ELSE LET prev == SkipFilesOf(n - 1)
       IN  SkipPieces \cup prev \cup {f \o <<NL>> \o t : f \in prev, t \in SkipPieces}

SkipFiles == SkipFilesOf(MaxSkipLines)

\* a file is read and parsed
ReadFile ==
  /\ call = ""
  /\ call' = "check"
  /\ \E c \in SkipFiles : args' = [contents |-> c, opts |-> OptionFlags]
  /\ UNCHANGED <<result, loop_vars, run_vars, out_vars>>

\* the body of run_assert's loop: every enabled rule checks the file
CheckFile ==
  /\ call = "check"
  /\ result = NoResult
  /\ result' = LET fi == parse_rust_file(args.contents)
               IN  [ok |-> fi.ok,
                    violations |-> IF fi.ok THEN AllViolations(fi, args.opts)
                                   ELSE <<>>]
  /\ UNCHANGED <<call, args, loop_vars, run_vars, out_vars>>

CheckNext == ReadFile \/ CheckFile

CheckSpec == Init /\ [][CheckNext]_vars

(***************************************************************************)
(* skip.rs on one line: which comment lines are markers                    *)
(***************************************************************************)
\* what stands before the slashes: nothing, blanks, or code
MarkerLeads == {<<>>, <<" ", " ">>, <<"x", ";", " ">>}

\* what stands between the slashes and the prefix
MarkerGaps == {<<>>, <<" ">>}

\* the two recognized forms, and the prefix without its sigil
MarkerForms == {"bracket", "at", "bare"}

FormPrefix(form) ==
  CASE form = "bracket" -> SkipBracketPrefix
    [] form = "at" -> SkipAtPrefix
    [] OTHER -> Tail(SkipAtPrefix)

\* what follows the prefix
MarkerSuffixes ==
  {<<>>,
   <<"]">>,
   <<"(","i","m","p","l","-","f","o","l","d","s",")">>,
   <<"(","i","m","p","l","-","f","o","l","d","s",")","]">>,
   <<"("," ","i","m","p","l","-","f","o","l","d","s"," ",")","]">>,
   <<"(",")">>,
   <<"(",")","]">>,
   <<"("," "," ",")","]">>,
   <<"(","i","m","p","l","-","f","o","l","d","s">>,
   <<" ","]">>,
   <<"]"," ","t","e","x","t">>,
   <<"(","i","m","p","l","-","f","o","l","d","s",")","]"," ","t","e","x","t">>,
   <<"(","i","m","p","l","-","f","o","l","d","s",")"," ","t","e","x","t">>,
   <<"p","e","r">>,
   <<" ","t","e","x","t">>,
   <<"]"," ">> }

MarkerLine(lead, gap, form, suffix) ==
  lead \o <<"/", "/">> \o gap \o FormPrefix(form) \o suffix

\* a line of a file reaches parse_skip_comment
ReadLine ==
  /\ call = ""
  /\ call' = "parse_skip_comment"
  /\ \E lead \in MarkerLeads, gap \in MarkerGaps, form \in MarkerForms,
        suffix \in MarkerSuffixes :
       args' = [line |-> MarkerLine(lead, gap, form, suffix), lead |-> lead,
                form |-> form, suffix |-> suffix]
  /\ UNCHANGED <<result, loop_vars, run_vars, out_vars>>

ParseLine ==
  /\ call = "parse_skip_comment"
  /\ result = NoResult
  /\ result' = [marker |-> parse_skip_comment(args.line)]
  /\ UNCHANGED <<call, args, loop_vars, run_vars, out_vars>>

LineNext == ReadLine \/ ParseLine

LineSpec == Init /\ [][LineNext]_vars

(***************************************************************************)
(* Macro visitors: embed_simple_vars.rs and insta_snapshots.rs             *)
(*                                                                         *)
(* A function block is a list of macro invocations, one per line.  One in  *)
(* statement position (`m!(..);`) is reached through visit_macro alone; one *)
(* in expression position (`let s = m!(..)`, a match arm, a closure body)  *)
(* is reached through visit_expr_macro, whose default traversal            *)
(* syn::visit::visit_expr_macro calls visit_macro on the same macro.       *)
(* println stands for `println!("{}", x)` (one simple argument),           *)
(* assert_snapshot for `assert_snapshot!(x)` (no inline snapshot).         *)
(***************************************************************************)
MaxMacros == 2         \* most macro invocations in a function block

FORMAT_MACROS == {"println"}
INSTA_SNAPSHOT_MACROS == {"assert_snapshot"}
MacroNames == FORMAT_MACROS \cup INSTA_SNAPSHOT_MACROS \cup {"vec"}
\* the blocks of n macro invocations; the k-th stands on line k + 1, at
\* column 4
MacroBlocks(n) ==
  {[k \in 1..n |-> [position |-> b[k][1], name |-> b[k][2],
                    line |-> k + 1, column |-> 4]] :
     b \in [1..n -> {"stmt", "expr"} \X MacroNames]}

Visitors == <<"FormatMacroVisitor", "InstaSnapshotVisitor", "SnapshotCollector">>

\* the visit calls the default traversal of a block makes on a visitor
BlockVisits(visitor, block) ==
  [k \in 1..Len(block) |->
     [visitor |-> visitor,
      method |-> IF block[k].position = "expr" THEN "visit_expr_macro"
                 ELSE "visit_macro",
      mac |-> block[k]]]

SpanStart(mac) == <<mac.line, mac.column>>

MacroViolation(rule, mac) ==
  [rule |-> rule, line |-> mac.line, column |-> mac.column]

\* embed_simple_vars.rs check_format_macro on visitor state v
check_format_macro(v, mac) ==
  IF SpanStart(mac) \in v.seen_spans THEN v
  ELSE [v EXCEPT !.seen_spans = @ \cup {SpanStart(mac)},
                 !.violations =
                   IF mac.name \in FORMAT_MACROS
                   THEN Append(@, MacroViolation("embed-simple-vars", mac))
                   ELSE @]

\* insta_snapshots.rs check_insta_macro on visitor state v
check_insta_macro(v, mac) ==
  IF SpanStart(mac) \in v.seen_spans THEN v
  ELSE [v EXCEPT !.seen_spans = @ \cup {SpanStart(mac)},
                 !.violations =
                   IF mac.name \in INSTA_SNAPSHOT_MACROS
                   THEN Append(@, MacroViolation("insta-inline-snapshot", mac))
                   ELSE @]

is_insta_snapshot_macro(mac) == mac.name \in INSTA_SNAPSHOT_MACROS

\* what SnapshotCollector does in visit_expr_macro and in visit_macro
collect_snapshot(v, mac) ==
  IF is_insta_snapshot_macro(mac)
  THEN [v EXCEPT !.snapshots = Append(@, SpanStart(mac))]
  ELSE v

\* the visitor's own work at a macro, the same in both entry points
VisitorCheck(visitor, v, mac) ==
  CASE visitor = "FormatMacroVisitor" -> check_format_macro(v, mac)
    [] visitor = "InstaSnapshotVisitor" -> check_insta_macro(v, mac)
    [] OTHER -> collect_snapshot(v, mac)

\* check_function_for_sequential_snapshots, from the collected positions
sequential_snapshots(snapshots) ==
  IF Len(snapshots) > 1
  THEN [k \in 1..(Len(snapshots) - 1) |->
          [rule |-> "insta-sequential-snapshots", line |-> snapshots[k + 1][1],
           column |-> snapshots[k + 1][2], first_line |-> snapshots[1][1]]]
  ELSE <<>>

NewVisitors ==
  [FormatMacroVisitor |-> [seen_spans |-> {}, violations |-> <<>>],
   InstaSnapshotVisitor |-> [seen_spans |-> {}, violations |-> <<>>],
   SnapshotCollector |-> [snapshots |-> <<>>],
   sequential |-> <<>>]

\* the three visitors are started on a function, one after the other
VisitFn ==
  /\ call = ""
  /\ call' = "visit"
  /\ \E n \in 1..MaxMacros : \E block \in MacroBlocks(n) :
       args' = [block |-> block,
                pending |-> BlockVisits(Visitors[1], block)
                            \o BlockVisits(Visitors[2], block)
                            \o BlockVisits(Visitors[3], block)]
  /\ result' = NewVisitors
  /\ UNCHANGED <<loop_vars, run_vars, out_vars>>

\* visit_expr_macro: the visitor's check, then the default traversal, which
\* visits the macro itself
VisitExprMacro ==
  /\ call = "visit"
  /\ args.pending # <<>>
  /\ Head(args.pending).method = "visit_expr_macro"
  /\ LET visit == Head(args.pending)
     IN  /\ result' = [result EXCEPT ![visit.visitor] =
                         VisitorCheck(visit.visitor, @, visit.mac)]
         /\ args' = [args EXCEPT !.pending =
                       <<[visit EXCEPT !.method = "visit_macro"]>> \o Tail(@)]
  /\ UNCHANGED <<call, loop_vars, run_vars, out_vars>>

\* visit_macro: the visitor's check; the macro's tokens are not traversed
VisitMacro ==
  /\ call = "visit"
  /\ args.pending # <<>>
  /\ Head(args.pending).method = "visit_macro"
  /\ LET visit == Head(args.pending)
     IN  result' = [result EXCEPT ![visit.visitor] =
                     VisitorCheck(visit.visitor, @, visit.mac)]
  /\ args' = [args EXCEPT !.pending = Tail(@)]
  /\ UNCHANGED <<call, loop_vars, run_vars, out_vars>>

\* the function's block is traversed: the sequential-snapshot check reports
VisitFnDone ==
  /\ call = "visit"
  /\ args.pending = <<>>
  /\ call' = "visited"
  /\ result' = [result EXCEPT !.sequential =
                  sequential_snapshots(result.SnapshotCollector.snapshots)]
  /\ UNCHANGED <<args, loop_vars, run_vars, out_vars>>

VisitNext == VisitFn \/ VisitExprMacro \/ VisitMacro \/ VisitFnDone

VisitSpec == Init /\ [][VisitNext]_vars

(***************************************************************************)
(* The rules' copies of span_position_to_byte on text that is not ASCII    *)
(*                                                                         *)
(* A text is a sequence of characters; "U+00E9" stands for a character of  *)
(* two bytes.  Spans count columns in characters.                          *)
(***************************************************************************)
MaxTextLen == 3        \* most characters of a text

WideChar == "U+00E9"
TextChars == {"a", NL, WideChar}

len_utf8(ch) == IF ch = WideChar THEN 2 ELSE 1

RECURSIVE ByteLen(_)
ByteLen(text) ==
  IF text = <<>> THEN 0 ELSE len_utf8(Head(text)) + ByteLen(Tail(text))

Texts == UNION {[1..m -> TextChars] : m \in 0..MaxTextLen}

\* the loop over char_indices every copy starts with, at the k-th character
\* and byte i: the byte at which `line` starts, -1 if the loop and the check
\* after it do not find the line
RECURSIVE LineStartScan(_, _, _, _, _, _)
LineStartScan(text, k, i, current_line, line_start, line) ==
  IF current_line = line THEN line_start
  ELSE IF k > Len(text) THEN -1
  ELSE IF text[k] = NL
       THEN LineStartScan(text, k + 1, i + 1, current_line + 1, i + 1, line)
  ELSE LineStartScan(text, k + 1, i + len_utf8(text[k]), current_line,
                     line_start, line)

\* join_split_impls.rs (the same text in impl_folds.rs, impl_follows_type.rs
\* and pub_first.rs): Some(line_start + column); -1 is None
join_split_impls_span_position_to_byte(text, line, column) ==
  LET line_start == LineStartScan(text, 1, 0, 1, 0, line)
  IN  IF line_start < 0 THEN -1 ELSE line_start + column

\* embed_simple_vars.rs: the bytes of the first `column` characters of
\* content[line_start..] are added; -1 is None
embed_simple_vars_span_position_to_byte(text, line, column) ==
  LET line_start == LineStartScan(text, 1, 0, 1, 0, line)
      first == CHOOSE k \in 1..(Len(text) + 1) :
                 ByteLen(SubSeq(text, 1, k - 1)) = line_start
      last == IF first + column - 1 <= Len(text) THEN first + column - 1
              ELSE Len(text)
  IN  IF line_start < 0 THEN -1
      ELSE line_start + ByteLen(SubSeq(text, first, last))

\* the characters before the first character of `line` (0 of them for line
\* 1), as the set of their possible counts: empty if the text has no such line
LineStarts(text, line) ==
  {k \in 0..Len(text) :
     /\ k = 0 \/ text[k] = NL
     /\ Cardinality({j \in 1..k : text[j] = NL}) = line - 1}

\* the columns of a line: 0 up to its number of characters
Columns(text, line) ==
  IF LineStarts(text, line) = {} THEN {0, 1}
  ELSE LET k == CHOOSE j \in LineStarts(text, line) : TRUE
       IN  {c \in 0..(Len(text) - k) :
              \A j \in (k + 1)..(k + c) : text[j] # NL}

\* a rule has a span position to convert
ReadPosition ==
  /\ call = ""
  /\ call' = "span_position_to_byte"
  /\ \E text \in Texts, line \in 1..(MaxTextLen + 1) :
       \E column \in Columns(text, line) :
         args' = [content |-> text, line |-> line, column |-> column]
  /\ UNCHANGED <<result, loop_vars, run_vars, out_vars>>

\* each copy converts the position
ConvertPosition ==
  /\ call = "span_position_to_byte"
  /\ result = NoResult
  /\ result' =
       [join_split_impls |->
          join_split_impls_span_position_to_byte(args.content, args.line, args.column),
        embed_simple_vars |->
          embed_simple_vars_span_position_to_byte(args.content, args.line, args.column)]
  /\ UNCHANGED <<call, args, loop_vars, run_vars, out_vars>>

PositionNext == ReadPosition \/ ConvertPosition

PositionSpec == Init /\ [][PositionNext]_vars

(***************************************************************************)
(* embed_simple_vars.rs: the fix that embeds simple arguments              *)
(*                                                                         *)
(* The tokens of a format macro are the format string literal and, after   *)
(* a comma each, the tokens of the arguments.  Groups (parenthesized token *)
(* trees) are left out of the arguments.                                   *)
(***************************************************************************)
MaxArgs == 2           \* most arguments after the format string

Ident(text) == [kind |-> "Ident", text |-> text]
Punct(ch) == [kind |-> "Punct", text |-> <<ch>>]
Literal(text) == [kind |-> "Literal", text |-> text]

\* arguments as token lists: x, total, x.field, -x, x.field as T, x + 1, 1
ArgExprs ==
  {<<Ident(<<"x">>)>>,
   <<Ident(<<"t","o","t","a","l">>)>>,
   <<Ident(<<"x">>), Punct("."), Ident(<<"f","i","e","l","d">>)>>,
   <<Punct("-"), Ident(<<"x">>)>>,
   <<Ident(<<"x">>), Punct("."), Ident(<<"f","i","e","l","d">>), Ident(<<"a", "s">>),
     Ident(<<"T">>)>>,
   <<Ident(<<"x">>), Punct("+"), Literal(<<"1">>)>>,
   <<Literal(<<"1">>)>>}

\* what a format string starts with: nothing, an escaped brace pair, a
\* placeholder that names its variable
FormatPrefixes == {<<>>, <<"{","{","}","}"," ">>, <<"{","n","}"," ">>}

\* the placeholders an argument is written for
ArgPlaceholders == {<<"{", "}">>, <<"{", ":", "?", "}">>}

\* the literal's text, quotes included, for the placeholders phs
FormatLiteral(prefix, phs) == <<"\"">> \o prefix \o JoinWith(phs, <<" ">>) \o <<"\"">>

RECURSIVE ArgTokens(_)
ArgTokens(exprs) ==
  IF exprs = <<>> THEN <<>>
  ELSE <<Punct(",")>> \o Head(exprs) \o ArgTokens(Tail(exprs))

\* all placeholders of a format string that are not escaped braces, as the
\* scan of find_embeddable_placeholders meets them from byte i on
RECURSIVE Placeholders(_, _)
Placeholders(format_str, i) ==
  IF i >= Len(format_str) THEN <<>>
  ELSE IF format_str[i + 1] # "{" THEN Placeholders(format_str, i + 1)
  ELSE IF i + 1 < Len(format_str) /\ format_str[i + 2] = "{"
       THEN Placeholders(format_str, i + 2)
  ELSE LET end_pos == FindFrom(format_str, <<"}">>, i + 1)
       IN  IF end_pos < 0 THEN Placeholders(format_str, i + 1)
           ELSE <<[start |-> i, end |-> end_pos + 1,
                   specifier |-> Slice(format_str, i + 1, end_pos)]>>
                \o Placeholders(format_str, end_pos + 1)

Embeddable(placeholder) ==
  placeholder.specifier = <<>> \/ Head(placeholder.specifier) = ":"

find_embeddable_placeholders(format_str) ==
  SelectSeq(Placeholders(format_str, 0), Embeddable)

is_alphabetic(c) == c \in IdentChars \ {"_"}

is_simple_identifier(s) ==
  /\ s # <<>>
  /\ is_alphabetic(Head(s)) \/ Head(s) = "_"
  /\ \A k \in 2..Len(s) : is_alphabetic(s[k]) \/ s[k] = "1" \/ s[k] = "_"

\* the index of the first comma at or after start (0-based), else the end
RECURSIVE ArgumentEnd(_, _)
ArgumentEnd(tokens, i) ==
  IF i >= Len(tokens) \/ tokens[i + 1] = Punct(",") THEN i
  ELSE ArgumentEnd(tokens, i + 1)

RECURSIVE TokenTexts(_)
TokenTexts(tokens) ==
  IF tokens = <<>> THEN <<>> ELSE Head(tokens).text \o TokenTexts(Tail(tokens))

\* the token texts are appended one after the other up to the next comma
collect_complex_argument(tokens, start) ==
  LET i == ArgumentEnd(tokens, start)
      joined == TokenTexts(SubSeq(tokens, start + 1, i))
  IN  IF joined = <<>> THEN [none |-> TRUE]
      ELSE [none |-> FALSE, arg_str |-> trim(joined), next |-> i]

collect_argument(tokens, start) ==
  IF start >= Len(tokens) THEN [none |-> TRUE]
  ELSE IF tokens[start + 1].kind = "Ident"
  THEN IF /\ start + 1 < Len(tokens)
          /\ tokens[start + 2] \in {Punct("."), Punct(":")}
       THEN collect_complex_argument(tokens, start)
       ELSE [none |-> FALSE, arg_str |-> tokens[start + 1].text, next |-> start + 1]
  ELSE collect_complex_argument(tokens, start)

\* the loop that collects the arguments after the format string
RECURSIVE CollectArgs(_, _)
CollectArgs(tokens, i) ==
  IF i >= Len(tokens) THEN <<>>
  ELSE IF tokens[i + 1] = Punct(",") THEN CollectArgs(tokens, i + 1)
  ELSE LET arg == collect_argument(tokens, i)
       IN  IF arg.none THEN CollectArgs(tokens, i + 1)
           ELSE <<arg.arg_str>> \o CollectArgs(tokens, arg.next)

\* new_fmt: the placeholders of the simple arguments among the first k are
\* replaced, the last one first
RECURSIVE EmbedSimple(_, _, _, _)
EmbedSimple(new_fmt, placeholders, fmt_args, k) ==
  IF k = 0 THEN new_fmt
  ELSE IF is_simple_identifier(fmt_args[k])
  THEN LET replaced ==
             Slice(new_fmt, 0, placeholders[k].start)
             \o <<"{">> \o fmt_args[k] \o placeholders[k].specifier \o <<"}">>
             \o SliceFrom(new_fmt, placeholders[k].end)
       IN  EmbedSimple(replaced, placeholders, fmt_args, k - 1)
  ELSE EmbedSimple(new_fmt, placeholders, fmt_args, k - 1)

NonSimple(arg_str) == ~is_simple_identifier(arg_str)

NoViolations == [violations |-> <<>>]

\* analyze_format_macro_tokens; the fix is kept as its parts (new format
\* string, remaining arguments) and its replacement text
analyze_format_macro_tokens(tokens) ==
  IF tokens = <<>> \/ tokens[1].kind # "Literal" \/ Head(tokens[1].text) # "\""
  THEN NoViolations
  ELSE LET format_string_content == tokens[1].text
           placeholders == find_embeddable_placeholders(format_string_content)
           fmt_args == CollectArgs(tokens, 1)
       IN  IF placeholders = <<>> \/ Len(placeholders) # Len(fmt_args)
              \/ \A k \in 1..Len(fmt_args) : NonSimple(fmt_args[k])
           THEN NoViolations
           ELSE LET new_fmt == EmbedSimple(format_string_content, placeholders,
                                           fmt_args, Len(fmt_args))
                    remaining_args == SelectSeq(fmt_args, NonSimple)
                IN  [violations |->
                       SelectSeq([k \in 1..Len(fmt_args) |->
                                    [rule |-> "embed-simple-vars",
                                     arg_str |-> fmt_args[k],
                                     specifier |-> placeholders[k].specifier]],
                                 LAMBDA v : is_simple_identifier(v.arg_str)),
                     new_fmt |-> new_fmt,
                     remaining_args |-> remaining_args,
                     replacement |->
                       IF remaining_args = <<>> THEN new_fmt
                       ELSE new_fmt \o <<",", " ">>
                            \o JoinWith(remaining_args, <<",", " ">>)]

\* a format macro with as many placeholders as arguments is visited
ReadMacro ==
  /\ call = ""
  /\ call' = "analyze_format_macro_tokens"
  /\ \E n \in 1..MaxArgs, prefix \in FormatPrefixes :
       \E phs \in [1..n -> ArgPlaceholders], exprs \in [1..n -> ArgExprs] :
         args' = [format_str |-> FormatLiteral(prefix, phs),
                  exprs |-> exprs,
                  tokens |-> <<Literal(FormatLiteral(prefix, phs))>>
                             \o ArgTokens(exprs)]
  /\ UNCHANGED <<result, loop_vars, run_vars, out_vars>>

AnalyzeMacro ==
  /\ call = "analyze_format_macro_tokens"
  /\ result = NoResult
  /\ result' = analyze_format_macro_tokens(args.tokens)
  /\ UNCHANGED <<call, args, loop_vars, run_vars, out_vars>>

EmbedNext == ReadMacro \/ AnalyzeMacro

EmbedSpec == Init /\ [][EmbedNext]_vars

(***************************************************************************)
(* join_split_impls on files with impl bodies, and its fix applied         *)
(***************************************************************************)
MaxJoinPieces == 3     \* most pieces a file of impl blocks is made of

\* pieces of a file: inherent impl blocks with and without fn items, a
\* trait impl, impl blocks of a generic type, other items, a comment, blocks
\* of two types
JoinPieces ==
  {<<"i","m","p","l"," ","A"," ","{","}">>,
   <<"i","m","p","l"," ","A"," ","{"," ","f","n"," ","m","(",")","{","}"," ",
     "}">>,
   <<"i","m","p","l"," ","A"," ","{","\n"," "," ","f","n"," ","n","(",")",
     "{","}","\n","}">>,
   <<"i","m","p","l"," ","B"," ","{"," ","f","n"," ","k","(",")","{","}"," ",
     "}">>,
   <<"i","m","p","l"," ","T"," ","f","o","r"," ","A"," ","{","}">>,
   <<"i","m","p","l"," ","A","<","B",">"," ","{","}">>,
   <<"i","m","p","l"," ","A","<","T",">"," ","{"," ","f","n"," ","k","(",")",
     "{","}"," ","}">>,
   <<"s","t","r","u","c","t"," ","A",";">>,
   <<"/","/"," ","c">>,
   <<"f","n"," ","f","(",")","{","}">>,
   <<"i","m","p","l"," ","A"," ","{","}"," ","f","n"," ","f","(",")","{","}">>,
   <<"i","m","p","l"," ","B"," ","{","}"," ","i","m","p","l"," ","A"," ","{","}">> }

RECURSIVE JoinFilesOf(_)
JoinFilesOf(n) ==
  IF n = 0 THEN {}
  ELSE LET prev == JoinFilesOf(n - 1)
       IN  JoinPieces \cup prev \cup {f \o <<NL>> \o t : f \in prev, t \in JoinPieces}

JoinFiles == JoinFilesOf(MaxJoinPieces)

\* the rule is given a file
ReadSource ==
  /\ call = ""
  /\ call' = "join_split_impls"
  /\ \E c \in JoinFiles : args' = [contents |-> c]
  /\ UNCHANGED <<result, loop_vars, run_vars, out_vars>>

\* join_split_impls::check on the parsed file
CheckJoin ==
  /\ call = "join_split_impls"
  /\ result = NoResult
  /\ \E info_ \in {parse_file(args.contents)} :
       result' = [violations |-> join_split_impls_check(args.contents, info_.items)]
  /\ UNCHANGED <<call, args, loop_vars, run_vars, out_vars>>

\* format mode applies the fix of the violation it meets first
ApplyJoinFix ==
  /\ call = "join_split_impls"
  /\ result # NoResult
  /\ \E v \in result.violations :
       result' = [violations |-> result.violations, applied |-> v,
                  content |-> replace_range(args.contents, v.fix.start_byte,
                                            v.fix.end_byte, v.fix.replacement)]
  /\ call' = "fixed"
  /\ UNCHANGED <<args, loop_vars, run_vars, out_vars>>

JoinNext == ReadSource \/ CheckJoin \/ ApplyJoinFix

JoinSpec == Init /\ [][JoinNext]_vars

(***************************************************************************)
(* impl_follows_type on a type, a gap, and its impl block                  *)
(***************************************************************************)
MaxBlankLines == 3     \* most blank lines in one gap

TypePieces ==
  {<<"s","t","r","u","c","t"," ","A",";">>,
   <<"p","u","b"," ","s","t","r","u","c","t"," ","A",";">>,
   <<"s","t","r","u","c","t"," ","A",";"," ","f","n"," ","f","(",")","{","}">> }

\* what may stand between the type and the impl block, besides blank lines
BetweenPieces ==
  {<<>>,
   <<"f","n"," ","f","(",")","{","}","\n">>,
   <<"s","t","r","u","c","t"," ","B",";","\n">>,
   <<"/","/"," ","c","\n">>,
   <<"i","m","p","l"," ","T"," ","f","o","r"," ","A"," ","{","}","\n">>,
   <<"i","m","p","l"," ","A"," ","{","}","\n">> }

ImplPieces ==
  {<<"i","m","p","l"," ","A"," ","{","}">>,
   <<" "," ","i","m","p","l"," ","A"," ","{","}">>,
   <<"i","m","p","l"," ","A"," ","{"," ","f","n"," ","m","(",")","{","}"," ",
     "}">>,
   <<"i","m","p","l"," ","B"," ","{","}">> }

TailPieces ==
  {<<>>,
   <<"\n","f","n"," ","g","(",")","{","}">>,
   <<"\n","\n","\n","i","m","p","l"," ","A"," ","{","}">> }

\* n blank lines, each holding the text blank (nothing, or a space)
RECURSIVE BlankLines(_, _)
BlankLines(n, blank) == IF n = 0 THEN <<>> ELSE blank \o <<NL>> \o BlankLines(n - 1, blank)

FollowsFiles ==
  {ty \o <<NL>> \o BlankLines(g1, blank) \o mid \o BlankLines(g2, blank) \o im \o tl :
     ty \in TypePieces, g1 \in 0..MaxBlankLines, mid \in BetweenPieces,
     g2 \in 0..MaxBlankLines, im \in ImplPieces, tl \in TailPieces,
     blank \in {<<>>, <<" ">>}}

\* the rule is given a file
ReadTypes ==
  /\ call = ""
  /\ call' = "impl_follows_type"
  /\ \E c \in FollowsFiles : args' = [contents |-> c]
  /\ UNCHANGED <<result, loop_vars, run_vars, out_vars>>

\* impl_follows_type::check on the parsed file
CheckFollows ==
  /\ call = "impl_follows_type"
  /\ result = NoResult
  /\ \E info_ \in {parse_file(args.contents)} :
       result' = [violations |-> impl_follows_type_check(args.contents, info_.items),
                  gaps |-> impl_follows_type_gaps(args.contents, info_.items)]
  /\ UNCHANGED <<call, args, loop_vars, run_vars, out_vars>>

\* format mode applies the first fix the rule offers
ApplyFollowsFix ==
  /\ call = "impl_follows_type"
  /\ result # NoResult
  /\ \E k \in 1..Len(result.violations) :
       /\ HasFix(result.violations[k])
       /\ \A j \in 1..(k - 1) : ~HasFix(result.violations[j])
       /\ result' = [violations |-> result.violations, gaps |-> result.gaps,
                     applied |-> result.violations[k],
                     content |-> replace_range(args.contents,
                                               result.violations[k].fix.start_byte,
                                               result.violations[k].fix.end_byte,
                                               result.violations[k].fix.replacement)]
  /\ call' = "relocated"
  /\ UNCHANGED <<args, loop_vars, run_vars, out_vars>>

FollowsNext == ReadTypes \/ CheckFollows \/ ApplyFollowsFix

FollowsSpec == Init /\ [][FollowsNext]_vars

(***************************************************************************)
(* pub_first applied round after round to files of several items           *)
(***************************************************************************)
MaxPubPieces == 3      \* most pieces a file of items is made of
MaxMoves == 4          \* the rounds that are counted

\* pieces of a file: items of the kinds the rule tracks, one with a doc
\* comment line, an impl block, and two items on one line
PubPieces ==
  {<<"c","o","n","s","t"," ","A",":"," ","T"," ","="," ","1",";">>,
   <<"t","y","p","e"," ","B"," ","="," ","T",";">>,
   <<"p","u","b"," ","t","r","a","i","t"," ","T"," ","{","}">>,
   <<"t","r","a","i","t"," ","T"," ","{","}">>,
   <<"f","n"," ","m","a","i","n","(",")","{","}">>,
   <<"p","u","b"," ","f","n"," ","g","(",")","{","}">>,
   <<"f","n"," ","f","(",")","{","}">>,
   <<"p","u","b"," ","s","t","r","u","c","t"," ","A",";">>,
   <<"/","/","/"," ","d","\n","p","u","b"," ","f","n"," ","k","(",")","{","}">>,
   <<"i","m","p","l"," ","A"," ","{","}">>,
   <<"f","n"," ","f","(",")","{","}"," ","p","u","b"," ","f","n"," ","g","(",
     ")","{","}">> }

RECURSIVE PubFilesOf(_)
PubFilesOf(n) ==
  IF n = 0 THEN {}
  ELSE LET prev == PubFilesOf(n - 1)
       IN  PubPieces \cup prev \cup {f \o <<NL>> \o t : f \in prev, t \in PubPieces}

PubFiles == PubFilesOf(MaxPubPieces)

\* the file is written
ReadItems ==
  /\ call = ""
  /\ call' = "pub_first"
  /\ \E c \in PubFiles : args' = [contents |-> c]
  /\ UNCHANGED <<result, loop_vars, run_vars, out_vars>>

\* one pass of the loop body up to the search for a fix: parse, pub_first::check
PubPass(content, rounds) ==
  LET info_ == parse_file(content)
  IN  [content |-> content, ok |-> info_.ok, rounds |-> rounds,
       violations |-> IF info_.ok THEN pub_first_check(content, info_.items) ELSE <<>>]

CheckOrder ==
  /\ call = "pub_first"
  /\ result = NoResult
  /\ result' = PubPass(args.contents, 0)
  /\ UNCHANGED <<call, args, loop_vars, run_vars, out_vars>>

\* a round of format mode: the fix is applied, the file is written, parsed
\* and checked again
ApplyMove ==
  /\ call = "pub_first"
  /\ result # NoResult
  /\ result.violations # <<>>
  /\ HasFix(result.violations[1])
  /\ result' = PubPass(replace_range(result.content,
                                     result.violations[1].fix.start_byte,
                                     result.violations[1].fix.end_byte,
                                     result.violations[1].fix.replacement),
                       Min(result.rounds + 1, MaxMoves))
  /\ UNCHANGED <<call, args, loop_vars, run_vars, out_vars>>

PubNext == ReadItems \/ CheckOrder \/ ApplyMove

PubSpec == Init /\ [][PubNext]_vars

(***************************************************************************)
(* no_tokio_spawn.rs: the visitor over the call expressions of a body      *)
(***************************************************************************)
MaxNesting == 2        \* deepest nesting of a call in a call's arguments

\* the paths of the called functions: a path is its sequence of segments
CallPaths ==
  { <<"tokio", "spawn">>, <<"tokio", "spawn_local">>, <<"tokio", "spawn_blocking">>,
    <<"tokio", "task", "spawn">>, <<"tokio", "task", "spawn_local">>,
    <<"tokio", "task", "spawn_blocking">>,
    <<"spawn">>, <<"task", "spawn">>, <<"tokio", "task">>, <<"f", "spawn">>,
    <<"tokio", "f", "spawn">>, <<"tokio", "spawn", "spawn">> }

\* an ExprCall: the path of its func, its span (the place among the calls
\* of the body, in source order), and the calls among its arguments
ExprCall(path, place, call_args) == [path |-> path, place |-> place, args |-> call_args]

RECURSIVE CallsFrom(_, _)
CallsFrom(depth, place) ==
  IF depth = 0 THEN {}
  ELSE {ExprCall(p, place, a) :
          p \in CallPaths,
          a \in {<<>>} \cup {<<c>> : c \in CallsFrom(depth - 1, place + 1)}}

\* a body: one statement with nested calls, or two statements
CallBodies ==
  {<<c>> : c \in CallsFrom(MaxNesting, 1)}
    \cup {<<c, d>> : c \in CallsFrom(1, 1), d \in CallsFrom(MaxNesting - 1, 2)}

is_tokio_spawn_path(path) ==
  IF path = <<"tokio", "spawn">> THEN <<"tokio::spawn">>
  ELSE IF path = <<"tokio", "spawn_local">> THEN <<"tokio::spawn_local">>
  ELSE IF path = <<"tokio", "task", "spawn">> THEN <<"tokio::task::spawn">>
  ELSE IF path = <<"tokio", "task", "spawn_local">> THEN <<"tokio::task::spawn_local">>
  ELSE <<>>

report_tokio_spawn(place, variant) ==
  Violation("no-tokio-spawn", place, 0, <<"call", variant>>, NoFix)

\* check: a new visitor on a file
VisitFile ==
  /\ call = ""
  /\ call' = "no_tokio_spawn"
  /\ \E body \in CallBodies : args' = [body |-> body]
  /\ result' = [violations |-> <<>>, todo |-> args'.body]
  /\ UNCHANGED <<loop_vars, run_vars, out_vars>>

\* visit_expr_call on the next call in source order: it is reported when
\* its path matches, then syn::visit::visit_expr_call walks its arguments
VisitExprCall ==
  /\ call = "no_tokio_spawn"
  /\ result.todo # <<>>
  /\ LET node == Head(result.todo)
         variant == is_tokio_spawn_path(node.path)
     IN  result' = [violations |->
                      IF variant # <<>>
                      THEN Append(result.violations, report_tokio_spawn(node.place, variant[1]))
                      ELSE result.violations,
                    todo |-> node.args \o Tail(result.todo)]
  /\ UNCHANGED <<call, args, loop_vars, run_vars, out_vars>>

TokioNext == VisitFile \/ VisitExprCall

TokioSpec == Init /\ [][TokioNext]_vars

(***************************************************************************)
(* ignored_error_comment.rs: the visitor's stack of skipped line ranges    *)
(***************************************************************************)
MaxDepth == 3          \* deepest nesting of containers in a file

\* a syntax node: a container (fn, mod, impl, impl fn, struct expression,
\* block) with its marker and its children, or a statement `let _ = ...`
Stmt(line) ==
  [kind |-> "stmt", marked |-> FALSE, sline |-> line, eline |-> line, children |-> <<>>]

Container(marked, sline, children, eline) ==
  [kind |-> "container", marked |-> marked, sline |-> sline, eline |-> eline,
   children |-> children]

\* the nodes that can start on line `line`, nested at most depth deep
RECURSIVE NodesAt(_, _)
NodesAt(depth, line) ==
  {Stmt(line)}
    \cup {Container(m, line, <<>>, line) : m \in BOOLEAN}
    \cup (IF depth = 0 THEN {}
          ELSE {Container(m, line, <<c>>, c.eline + 1) :
                  m \in BOOLEAN, c \in NodesAt(depth - 1, line + 1)}
               \cup {Container(m, line, <<c, Stmt(c.eline + 1)>>, c.eline + 2) :
                       m \in BOOLEAN, c \in NodesAt(depth - 1, line + 1)}
               \cup {Container(m, line, <<Stmt(line + 1), c>>, c.eline + 1) :
                       m \in BOOLEAN, c \in NodesAt(depth - 1, line + 2)})

\* Range<usize>: start..end
LineRange(start, end) == <<start, end>>

is_in_skipped_range(skipped_ranges, line) ==
  \E k \in 1..Len(skipped_ranges) :
    skipped_ranges[k][1] <= line /\ line < skipped_ranges[k][2]

\* Vec::pop, and a return that forgets to pop
skipped_ranges_kept(skipped_ranges) == skipped_ranges

skipped_ranges_pop(skipped_ranges) == SubSeq(skipped_ranges, 1, Len(skipped_ranges) - 1)

\* a call in progress: a node about to be visited, or a container whose
\* children have been visited and whose visit method is about to return
Enter(node) == [op |-> "enter", node |-> node]

Return(node) == [op |-> "return", node |-> node]

\* check: a new visitor walks the file
VisitTree ==
  /\ call = ""
  /\ call' = "ignored_error_comment"
  /\ \E node \in NodesAt(MaxDepth, 1) : args' = [file |-> node]
  /\ result' = [violations |-> <<>>, skipped_ranges |-> <<>>,
                pending |-> <<Enter(args'.file)>>]
  /\ UNCHANGED <<loop_vars, run_vars, out_vars>>

\* impl_skip_aware_visit, up to the call of the visit function: a marked
\* container pushes its line range, then its children are visited
EnterContainer ==
  /\ call = "ignored_error_comment"
  /\ result.pending # <<>>
  /\ Head(result.pending).op = "enter"
  /\ Head(result.pending).node.kind = "container"
  /\ LET node == Head(result.pending).node
     IN  result' = [violations |-> result.violations,
                    skipped_ranges |->
                      IF node.marked
                      THEN Append(result.skipped_ranges,
                                  LineRange(node.sline, node.eline + 1))
                      ELSE result.skipped_ranges,
                    pending |-> [k \in 1..Len(node.children) |-> Enter(node.children[k])]
                                \o <<Return(node)>> \o Tail(result.pending)]
  /\ UNCHANGED <<call, args, loop_vars, run_vars, out_vars>>

\* impl_skip_aware_visit after the visit function returned: the marked
\* container pops
LeaveContainer ==
  /\ call = "ignored_error_comment"
  /\ result.pending # <<>>
  /\ Head(result.pending).op = "return"
  /\ result' = [violations |-> result.violations,
                skipped_ranges |->
                  IF Head(result.pending).node.marked
                  THEN skipped_ranges_pop(result.skipped_ranges)
                  ELSE result.skipped_ranges,
                pending |-> Tail(result.pending)]
  /\ UNCHANGED <<call, args, loop_vars, run_vars, out_vars>>

\* visit_stmt on `let _ = ...` without the per-line comment: reported
\* unless its line is in a skipped range
VisitStmt ==
  /\ call = "ignored_error_comment"
  /\ result.pending # <<>>
  /\ Head(result.pending).op = "enter"
  /\ Head(result.pending).node.kind = "stmt"
  /\ LET node == Head(result.pending).node
     IN  result' = [violations |->
                      IF ~is_in_skipped_range(result.skipped_ranges, node.sline)
                      THEN Append(result.violations,
                                  Violation("ignored-error-comment", node.sline, 0,
                                            <<"stmt", node.sline>>, NoFix))
                      ELSE result.violations,
                    skipped_ranges |-> result.skipped_ranges,
                    pending |-> Tail(result.pending)]
  /\ UNCHANGED <<call, args, loop_vars, run_vars, out_vars>>

TraverseNext == VisitTree \/ EnterContainer \/ LeaveContainer \/ VisitStmt

TraverseSpec == Init /\ [][TraverseNext]_vars

(***************************************************************************)
(* run_format from its first statement: the target directory, the source   *)
(* directories, the snapshot directories, then the files                   *)
(***************************************************************************)
\* the snapshots/ directories that can stand below the target directory:
\* walked says that no component of the path is hidden or named target,
\* has_snap_files that a .snap or .pending-snap file lies inside
SnapshotDirs ==
  { [path |-> "src/snapshots", walked |-> TRUE, has_snap_files |-> TRUE],
    [path |-> "tests/snapshots", walked |-> TRUE, has_snap_files |-> FALSE],
    [path |-> "target/snapshots", walked |-> FALSE, has_snap_files |-> TRUE] }

\* the target directories: a missing one, a directory of .rs files, and a
\* package (Cargo.toml without workspace members) with or without src/
TargetDirs ==
  { [exists |-> e, cargo_toml |-> c, standard_dirs |-> sd, snapshots |-> sn] :
      e \in BOOLEAN, c \in BOOLEAN, sd \in SUBSET {"src"}, sn \in SUBSET SnapshotDirs }

FormatTrees == [PathSet -> SiblingFiles]

\* find_src_dirs, collect_standard_dirs
find_src_dirs(root) ==
  IF ~root.cargo_toml
  THEN (IF root.exists THEN <<".">> ELSE <<>>)
  ELSE SetToSeq(root.standard_dirs)

\* delete_snap_files: the directories marked for deletion
snapshot_dirs_to_delete(target_dir) ==
  {d \in target_dir.snapshots : d.walked /\ d.has_snap_files}

\* variant: the snapshot directories are deleted whatever the options say
insta_inline_snapshot_always(o) == TRUE

\* `if opts.insta_inline_snapshot`
insta_inline_snapshot(o) == o.insta_inline_snapshot

\* run_format is called
FormatStart ==
  /\ pc = "start"
  /\ call = ""
  /\ call' = "run_format"
  /\ opts' \in OptionSets
  /\ tree' \in FormatTrees
  /\ tree0' = tree'
  /\ done' = [p \in {} |-> ""]
  /\ \E target_dir \in TargetDirs, insta \in BOOLEAN :
       args' = [target_dir |-> target_dir,
                opts |-> [insta_inline_snapshot |-> insta]]
  /\ result' = [snapshots |-> args'.target_dir.snapshots, phases |-> <<>>]
  /\ pc' = "target_dir"
  /\ UNCHANGED <<disk, info, first_fix, fixed_count, unfixable, outcome,
                 exit_code, run, writes, passes, first_run>>
  /\ UNCHANGED <<mode, file_paths, cur, run_fixed_count, unfixable_violations>>
  /\ UNCHANGED out_vars

\* `if !target_dir.exists() { .. return 1 }`
CheckTargetDir ==
  /\ pc = "target_dir"
  /\ IF ~args.target_dir.exists
     THEN /\ stderr' = Append(stderr, <<"Target directory does not exist: ", ".">>)
          /\ exit_code' = 1
          /\ pc' = "exited"
          /\ result' = [result EXCEPT !.phases = Append(@, "no target directory")]
     ELSE /\ pc' = "src_dirs"
          /\ result' = [result EXCEPT !.phases = Append(@, "target directory")]
          /\ UNCHANGED <<stderr, exit_code>>
  /\ UNCHANGED <<opts, disk, info, first_fix, fixed_count, unfixable, outcome,
                 run, writes, passes, first_run>>
  /\ UNCHANGED <<run_vars, stdout, call, args>>

\* `let src_dirs = find_src_dirs(target_dir); if src_dirs.is_empty() { .. return 1 }`
FindSrcDirs ==
  /\ pc = "src_dirs"
  /\ IF find_src_dirs(args.target_dir) = <<>>
     THEN /\ stderr' = Append(stderr, <<"No source directories found">>)
          /\ exit_code' = 1
          /\ pc' = "exited"
          /\ result' = [result EXCEPT !.phases = Append(@, "no source directories")]
     ELSE /\ pc' = "snapshots"
          /\ result' = [result EXCEPT !.phases = Append(@, "source directories")]
          /\ UNCHANGED <<stderr, exit_code>>
  /\ UNCHANGED <<opts, disk, info, first_fix, fixed_count, unfixable, outcome,
                 run, writes, passes, first_run>>
  /\ UNCHANGED <<run_vars, stdout, call, args>>

\* `if opts.insta_inline_snapshot { delete_snap_files(target_dir) }`:
\* fs::remove_dir_all succeeds or fails for each marked directory
DeleteSnapFiles ==
  /\ pc = "snapshots"
  /\ IF insta_inline_snapshot(args.opts)
     THEN \E failed \in SUBSET snapshot_dirs_to_delete(args.target_dir) :
            LET deleted == snapshot_dirs_to_delete(args.target_dir) \ failed
            IN  /\ result' = [snapshots |-> result.snapshots \ deleted,
                              phases |-> Append(result.phases, "delete_snap_files")]
                /\ stdout' = stdout
                     \o [k \in 1..Cardinality(deleted) |->
                          <<"codestyle: deleted snapshots dir">>]
                /\ stderr' = stderr
                     \o [k \in 1..Cardinality(failed) |->
                          <<"Warning: Failed to delete snapshots dir">>]
     ELSE /\ result' = [result EXCEPT !.phases = Append(@, "snapshots kept")]
          /\ UNCHANGED <<stdout, stderr>>
  /\ pc' = "collect"
  /\ UNCHANGED <<opts, disk, info, first_fix, fixed_count, unfixable, outcome,
                 exit_code, run, writes, passes, first_run>>
  /\ UNCHANGED <<run_vars, call, args>>

FormatRunNext ==
  \/ FormatStart
  \/ CheckTargetDir
  \/ FindSrcDirs
  \/ DeleteSnapFiles
  \/ CollectPaths
  \/ NextFile
  \/ ParseFile
  \/ FindFix
  \/ FinalPass
  \/ ApplyFix
  \/ AbortFix
  \/ OutgrowModel
  \/ FileDone
  \/ RunFinish

FormatRunSpec == Init /\ [][FormatRunNext]_vars

(***************************************************************************)
(* Properties of the format loop                                           *)
(***************************************************************************)

\* C1: at most one fix is written per parse of a file: between two parses
\* there is at most one write, and the fix about to be written was computed
\* by the rules from the FileInfo of the parse just before it, which is the
\* content the file has on disk at that moment.
C1_OneFixPerParse ==
  /\ writes <= 1
  /\ pc = "apply" =>
       /\ writes = 0
       /\ info = parse_rust_file(disk)
       /\ first_fix \in FirstFix(info, opts)

\* a fix has been written and the file is about to be parsed again
C1_Witness ==
  /\ pc = "parse"
  /\ writes = 1
  /\ disk = NewContent(info.contents, first_fix.fix)
  /\ disk # info.contents

\* C2: among the impl rules the loop takes the fix of join_split_impls
\* before one of impl_follows_type, and either of them before one of
\* impl_folds: a fix of a later rule is selected only when no earlier enabled
\* rule has a fix on the same FileInfo.
C2_ImplRuleOrder ==
  pc = "apply" =>
    LET join == IF "join_split_impls" \in opts
                THEN FirstOfJoin(info.contents, info.items) ELSE {}
        follows == IF "impl_follows_type" \in opts
                   THEN FirstOfSeq(impl_follows_type_check(info.contents, info.items))
                   ELSE {}
    IN  /\ first_fix.rule = "impl-follows-type" => join = {}
        /\ first_fix.rule = "impl-folds" => join = {} /\ follows = {}

\* an impl_folds fix is selected with both earlier impl rules enabled, in a
\* run that had a join_split_impls fix before
C2_Witness ==
  /\ pc = "apply"
  /\ first_fix.rule = "impl-folds"
  /\ {"join_split_impls", "impl_follows_type"} \subseteq opts
  /\ fixed_count >= 1

\* C3: the format loop terminates: every run of it on a file leaves the loop,
\* by the final pass or by a break, after finitely many rounds.
C3_LoopTerminates == <>(pc \in {"returned", "outgrown"})

\* C4: a second run_format on the file a first run left, with the same
\* options, writes nothing: it selects no fix, applies none, and the content
\* stays the one the first run left. A first run counts as completed unless
\* fs::write failed in it.
C4_SecondRunIdle ==
  (run = 2 /\ first_run.outcome # "write_failed") =>
    /\ pc # "apply"
    /\ fixed_count = 0
    /\ disk = first_run.disk

\* the second run has returned after a first run that fixed something
C4_Witness ==
  /\ run = 2
  /\ pc = "exited"
  /\ first_run.outcome = "final_pass"
  /\ first_run.fixed_count >= 1
  /\ fixed_count = 0

\* the violations one rule reports on a parsed content
RuleViolations(rule, fi) ==
  CASE rule = "join-split-impls" ->
         SetToSeq(join_split_impls_check(fi.contents, fi.items))
    [] rule = "impl-follows-type" -> impl_follows_type_check(fi.contents, fi.items)
    [] rule = "impl-folds" -> impl_folds_check(fi.contents, fi.items)
    [] rule = "pub-first" -> pub_first_check(fi.contents, fi.items)
    [] OTHER -> check_instrument(FnItems(fi.items))

\* the option flag of each rule that attaches fixes
FixCarryingRules ==
  [join_split_impls |-> "join-split-impls", impl_follows_type |-> "impl-follows-type",
   impl_folds |-> "impl-folds", pub_first |-> "pub-first"]

\* C5: a fix resolves its violation: when the selected fix is applied to the
\* content it was computed from and the result parses, the same rule reports
\* no violation for the same construct on the result; and a file the loop
\* left through the final pass has no violation of a fix-carrying rule.
C5_FixResolvesViolation ==
  /\ (pc = "apply" /\ InBounds(first_fix.fix, info.contents)) =>
       LET after == parse_rust_file(NewContent(info.contents, first_fix.fix))
           again == RuleViolations(first_fix.rule, after)
       IN  after.ok =>
             \A k \in 1..Len(again) : again[k].node # first_fix.node
  /\ outcome = "final_pass" =>
       \A flag \in opts \cap DOMAIN FixCarryingRules :
          RuleViolations(FixCarryingRules[flag], parse_rust_file(disk)) = <<>>

\* C6: the unfixable violations are collected once per run of the loop, on a
\* content for which no enabled rule has a fix, and that content is the one
\* on disk from then on: what is returned is what collect_unfixable gives
\* for the file as it is left.
C6_FinalPassOnce ==
  /\ passes <= 1
  /\ passes = 1 => outcome = "final_pass"
  /\ outcome = "final_pass" =>
       /\ passes = 1
       /\ pc \in {"returned", "exited"}
       /\ info = parse_rust_file(disk)
       /\ FirstFix(info, opts) = {}
       /\ unfixable = collect_unfixable(parse_rust_file(disk), opts)

\* a run that wrote a fix ends with an unfixable violation reported
C6_Witness ==
  /\ pc = "exited"
  /\ outcome = "final_pass"
  /\ fixed_count >= 1
  /\ unfixable # <<>>
  /\ exit_code = 1

\* the fixes the enabled rules attach on one snapshot
Candidates(fi, o) ==
  LET fixable == FilterHasFix(AllViolations(fi, o))
  IN  {fixable[k] : k \in 1..Len(fixable)}

\* two byte ranges intersect
Overlap(f, g) == f.start_byte < g.end_byte /\ g.start_byte < f.end_byte

\* C7 as stated: no two fixes are applied to one snapshot, and of the
\* candidate fixes of a snapshot that overlap the applied one, the applied
\* one starts earliest.
C7_EarliestStartApplied ==
  /\ writes <= 1
  /\ pc = "apply" =>
       \A c \in Candidates(info, opts) :
          Overlap(c.fix, first_fix.fix) =>
            first_fix.fix.start_byte <= c.fix.start_byte

\* position of each rule in the cascade of format_file_iteratively
RuleRank ==
  [r \in {"instrument", "join-split-impls", "impl-follows-type", "impl-folds",
          "pub-first"} |->
     CASE r = "instrument" -> 1
       [] r = "join-split-impls" -> 2
       [] r = "impl-follows-type" -> 3
       [] r = "impl-folds" -> 4
       [] r = "pub-first" -> 5]

\* C7: one fix is applied per snapshot: the applied fix is a candidate of
\* the snapshot, no candidate belongs to a rule called earlier, and the
\* content written is the snapshot with this one fix spliced in; where a
\* candidate overlaps it, the applied one is the one of the earlier rule,
\* whatever their start bytes.
C7_FirstInRuleOrderApplied ==
  /\ writes <= 1
  /\ pc = "apply" =>
       /\ first_fix \in Candidates(info, opts)
       /\ \A c \in Candidates(info, opts) :
            RuleRank[first_fix.rule] <= RuleRank[c.rule]
  /\ (pc = "parse" /\ writes = 1) =>
       disk = NewContent(info.contents, first_fix.fix)

\* a fix is selected although an overlapping candidate starts before it
C7_Witness ==
  /\ pc = "apply"
  /\ \E c \in Candidates(info, opts) :
       /\ Overlap(c.fix, first_fix.fix)
       /\ c.fix.start_byte < first_fix.fix.start_byte

\* C8: every fix a rule attaches to a violation of a snapshot, and the fix
\* the loop is about to splice, lies in the snapshot:
\* 0 <= start_byte <= end_byte <= length of the content.
C8_FixWithinContent ==
  pc \in {"check", "apply"} =>
    /\ \A c \in Candidates(info, OptionFlags) :
         /\ 0 <= c.fix.start_byte
         /\ c.fix.start_byte <= c.fix.end_byte
         /\ c.fix.end_byte <= Len(info.contents)
    /\ pc = "apply" =>
         /\ 0 <= first_fix.fix.start_byte
         /\ first_fix.fix.start_byte <= first_fix.fix.end_byte
         /\ first_fix.fix.end_byte <= Len(info.contents)

\* a pub_first fix that ends at the very end of a content without a final
\* newline is about to be spliced
C8_Witness ==
  /\ pc = "apply"
  /\ first_fix.rule = "pub-first"
  /\ first_fix.fix.end_byte = Len(info.contents)
  /\ info.contents[Len(info.contents)] # NL

\* C10: after each fix the loop writes, the file on disk parses.
C10_ParseableAfterFix ==
  (pc = "parse" /\ writes = 1) => parse_rust_file(disk).ok

(***************************************************************************)
(* Properties of a run over several files                                  *)
(***************************************************************************)
OfFile(fvs, p) == SelectSeq(fvs, LAMBDA fv : fv.file = p)

Started == pc # "start"

\* C11: a file that does not parse when the run collects the files is left
\* as it is, format_file_iteratively is never called on it and no reported
\* violation names it; every file that parses is processed: in assert mode
\* its violations are the ones the enabled rules report on it, in format mode
\* format_file_iteratively has run on it, and where that ended with the final
\* pass the file has no fixable violation left and its unfixable ones are
\* reported.
C11_BrokenFileSkipped ==
  Started =>
    /\ mode = "assert" => tree = tree0
    /\ \A p \in PathSet :
         IF ~parse_rust_file(tree0[p]).ok
         THEN /\ tree[p] = tree0[p]
              /\ p \notin DOMAIN done
              /\ pc \in {"parse", "check", "apply", "returned"} => cur # p
              /\ OfFile(unfixable_violations, p) = <<>>
         ELSE pc = "exited" =>
                IF mode = "assert"
                THEN OfFile(unfixable_violations, p)
                       = AllInFile(p, AllViolations(parse_rust_file(tree0[p]), opts))
                ELSE /\ p \in DOMAIN done
                     /\ done[p] = "final_pass" =>
                          /\ FirstFix(parse_rust_file(tree[p]), opts) = {}
                          /\ OfFile(unfixable_violations, p)
                               = AllInFile(p, collect_unfixable(parse_rust_file(tree[p]), opts))

\* a format run has ended on a directory whose first file does not parse and
\* whose second file it has changed
C11_Witness ==
  /\ pc = "exited"
  /\ mode = "format"
  /\ ~parse_rust_file(tree0[Paths[1]]).ok
  /\ tree[Paths[2]] # tree0[Paths[2]]
  /\ done[Paths[2]] = "final_pass"

\* the violations the enabled rules report on a file as it is on disk
Remaining(content, o) ==
  LET fi == parse_rust_file(content)
  IN  IF fi.ok THEN AllViolations(fi, o) ELSE <<>>

\* C12: a format run exits 1 if a violation remains in a file it processed,
\* and 0 otherwise.
C12_ExitOneIffViolationRemains ==
  (pc = "exited" /\ mode = "format") =>
    (exit_code = 1 <=> \E p \in DOMAIN done : Remaining(tree[p], opts) # <<>>)

\* the line the claim describes for a violation: [rule] path:line:col: message
ClaimedLine(fv) ==
  <<"[", fv.violation.rule, "] ", fv.file, ":", fv.violation.line, ":",
    fv.violation.column, ": ", "message">>

\* the violations the enabled rules report on the files of the tree that
\* parse, file by file
RECURSIVE TreeViolations(_, _, _)
TreeViolations(t, paths, o) ==
  IF paths = <<>> THEN <<>>
  ELSE AllInFile(Head(paths), Remaining(t[Head(paths)], o))
       \o TreeViolations(t, Tail(paths), o)

BrokenPaths(t) == {p \in PathSet : ~parse_rust_file(t[p]).ok}

MarkerOnLine(content, l) ==
  IF l >= 1 /\ l <= Len(lines(content))
  THEN parse_skip_comment(lines(content)[l]) ELSE NoMarker

\* the file with every marker comment replaced by an empty comment
Plain(content) ==
  LET ls == lines(content)
  IN  JoinWith([k \in 1..Len(ls) |->
                  IF parse_skip_comment(ls[k]) # NoMarker THEN <<"/", "/">> ELSE ls[k]],
               <<NL>>)

\* a rule's name as the characters a marker spells it with
RuleChars(rule) ==
  CASE rule = "impl-folds" -> RuleFoldsName
    [] rule = "impl-follows-type" -> RuleFollowsName
    [] rule = "pub-first" -> <<"p","u","b","-","f","i","r","s","t">>
    [] rule = "instrument" -> <<"i","n","s","t","r","u","m","e","n","t">>
    [] OTHER -> <<"j","o","i","n","-","s","p","l","i","t","-","i","m","p","l","s">>

Checked == call = "check" /\ result # NoResult /\ result.ok

Reported(vs, rule, node) ==
  \E k \in 1..Len(vs) : vs[k].rule = rule /\ vs[k].node = node

\* C14 as stated: a marker naming rule R hides violations of R only, and only
\* at the node it is written on.  In a file without skip-all markers, a
\* violation the rules report on the file without its markers is missing
\* from the report only if a marker naming the violation's rule stands on the
\* line above the violation's node and that node is the first one that
\* starts on its line: other rules at that node and the same rule at
\* sibling nodes are still reported.
C14_NamedMarkerHidesOnlyItsNode ==
  (/\ Checked
   /\ \A l \in 1..Len(lines(args.contents)) : MarkerOnLine(args.contents, l) # SkipAll) =>
    LET c == args.contents
        items == parse_file(c).items
        base == Remaining(Plain(c), args.opts)
    IN  \A j \in 1..Len(base) :
          ~Reported(result.violations, base[j].rule, base[j].node) =>
            \E i \in 1..Len(items) :
              /\ items[i].node = base[j].node
              /\ MarkerOnLine(c, items[i].sline - 1) = SkipRule(RuleChars(base[j].rule))
              /\ \A h \in 1..(i - 1) : items[h].sline # items[i].sline

\* what holds in place of C14: a violation is hidden only under a skip-all
\* marker or a marker naming its rule, and only at nodes that start on the
\* line directly below the marker (siblings on that line included).
MarkerHidesOnlyNextLine ==
  Checked =>
    LET c == args.contents
        items == parse_file(c).items
        base == Remaining(Plain(c), args.opts)
    IN  \A j \in 1..Len(base) :
          ~Reported(result.violations, base[j].rule, base[j].node) =>
            \E i \in 1..Len(items) :
              /\ items[i].node = base[j].node
              /\ MarkerOnLine(c, items[i].sline - 1)
                   \in {SkipAll, SkipRule(RuleChars(base[j].rule))}

\* C15: a marker without a rule name above an item suppresses every enabled
\* rule there: no violation is reported on that item.
C15_SkipAllSilencesItem ==
  Checked =>
    LET c == args.contents
        items == parse_file(c).items
    IN  \A i \in 1..Len(items) :
          MarkerOnLine(c, items[i].sline - 1) = SkipAll =>
            \A k \in 1..Len(result.violations) :
              result.violations[k].node # items[i].node

\* C16: a marker on the line above an item's first attribute, or on a line
\* between its attributes and its keyword, suppresses the item as a marker
\* directly above an item without attributes does: impl-folds reports no
\* impl block that has attributes and such a marker.
C16_MarkerAmongAttributes ==
  Checked =>
    LET c == args.contents
        items == parse_file(c).items
    IN  \A i \in 1..Len(items) :
          (/\ items[i].kind = "impl"
           /\ Len(items[i].attrs) >= 1
           /\ \E l \in (items[i].sline - 1)..(items[i].id_line - 1) :
                MarkerOnLine(c, l) \in {SkipAll, SkipRule(RuleFoldsName)})
          => ~Reported(result.violations, "impl-folds", items[i].node)

\* the closing a form requires after the prefix or the rule name
Closing(form) == IF form = "bracket" THEN <<"]">> ELSE <<>>

\* the suffix is the form's closing alone or a parenthesized non-empty rule
\* name and the closing (blanks around the parts allowed)
WellFormedSuffix(form, suffix) ==
  LET s == trim(suffix)
  IN  \/ s = Closing(form)
      \/ /\ starts_with(s, <<"(">>)
         /\ find(Tail(s), <<")">>) >= 0
         /\ trim(Slice(Tail(s), 0, find(Tail(s), <<")">>))) # <<>>
         /\ trim(SliceFrom(Tail(s), find(Tail(s), <<")">>) + 1)) = Closing(form)

\* C17: a comment line is a marker only if a recognized prefix is followed
\* by nothing but the form's closing or a parenthesized non-empty rule name;
\* with anything else after the prefix (an empty rule name, trailing text)
\* the line yields no marker.
C17_MalformedMarkerIgnored ==
  (call = "parse_skip_comment" /\ result # NoResult /\ result.marker # NoMarker) =>
    /\ args.form \in {"bracket", "at"}
    /\ WellFormedSuffix(args.form, args.suffix)

(***************************************************************************)
(* Properties of the macro visitors                                        *)
(***************************************************************************)
\* how often position p occurs in the sequence ps
RECURSIVE Occurrences(_, _)
Occurrences(ps, p) ==
  IF ps = <<>> THEN 0
  ELSE (IF Head(ps) = p THEN 1 ELSE 0) + Occurrences(Tail(ps), p)

ViolationStarts(vs) == [k \in 1..Len(vs) |-> <<vs[k].line, vs[k].column>>]

\* C18: in each visitor that handles macros through both entry points, one
\* macro invocation is counted once: it yields its violation at most once
\* and is recorded at most once in the function's collection of snapshot
\* macros.
C18_MacroCountedOnce ==
  call \in {"visit", "visited"} =>
    \A k \in 1..Len(args.block) :
      LET p == SpanStart(args.block[k])
      IN  /\ Occurrences(ViolationStarts(result.FormatMacroVisitor.violations), p) <= 1
          /\ Occurrences(ViolationStarts(result.InstaSnapshotVisitor.violations), p) <= 1
          /\ Occurrences(result.SnapshotCollector.snapshots, p) <= 1

\* the part of C18 that holds: the two visitors that keep seen_spans report
\* a macro once, through whichever entry point it is reached
SeenSpansCountOnce ==
  call \in {"visit", "visited"} =>
    \A k \in 1..Len(args.block) :
      LET p == SpanStart(args.block[k])
      IN  /\ Occurrences(ViolationStarts(result.FormatMacroVisitor.violations), p) <= 1
          /\ Occurrences(ViolationStarts(result.InstaSnapshotVisitor.violations), p) <= 1

(***************************************************************************)
(* Properties of the position conversions                                  *)
(***************************************************************************)
Converted == call = "span_position_to_byte" /\ result # NoResult

\* C19: every copy returns none when the line is past the end of the
\* content, and otherwise the byte offset of the line's start plus the
\* column taken as a number of bytes, so that all copies agree.
C19_ConversionsAgreeOnBytes ==
  Converted =>
    LET starts == LineStarts(args.content, args.line)
    IN  \A copy \in {"join_split_impls", "embed_simple_vars"} :
          IF starts = {} THEN result[copy] = -1
          ELSE \E k \in starts :
                 result[copy] = ByteLen(SubSeq(args.content, 1, k)) + args.column

\* the parts of C19 that hold: no copy finds a line past the end, and on
\* a line of one-byte characters the copies agree
PastEndIsNone ==
  Converted =>
    (LineStarts(args.content, args.line) = {}
       <=> result.join_split_impls = -1 /\ result.embed_simple_vars = -1)

AsciiConversionsAgree ==
  (Converted /\ \A k \in 1..Len(args.content) : args.content[k] # WideChar) =>
    result.join_split_impls = result.embed_simple_vars

(***************************************************************************)
(* Properties of the embedding fix                                         *)
(***************************************************************************)
\* the tokens a text is read as: runs of word characters, single other
\* characters, blanks dropped
RECURSIVE Words(_, _)
Words(text, word) ==
  IF text = <<>> THEN (IF word = <<>> THEN <<>> ELSE <<word>>)
  ELSE IF Head(text) \in IdentChars \cup {"1"}
       THEN Words(Tail(text), Append(word, Head(text)))
  ELSE (IF word = <<>> THEN <<>> ELSE <<word>>)
       \o (IF IsWs(Head(text)) THEN <<>> ELSE <<<<Head(text)>>>>)
       \o Words(Tail(text), <<>>)

TextsOf(tokens) == [k \in 1..Len(tokens) |-> tokens[k].text]

IsSimpleExpr(expr) == Len(expr) = 1 /\ expr[1].kind = "Ident"

IsComplexExpr(expr) == ~IsSimpleExpr(expr)

Fixed ==
  /\ call = "analyze_format_macro_tokens"
  /\ result # NoResult
  /\ result.violations # <<>>

\* C20: in the embedding fix the trailing arguments of the rebuilt macro are
\* exactly the original arguments that are not simple, each once and in
\* the original order; each simple argument is embedded only into the
\* placeholder at its own position; a field access is never embedded.
C20_EmbedKeepsComplexArgs ==
  Fixed =>
    LET complex == SelectSeq(args.exprs, IsComplexExpr)
        old == Placeholders(args.format_str, 0)
        new == Placeholders(result.new_fmt, 0)
        at == SelectSeq([k \in 1..Len(old) |-> k], LAMBDA k : Embeddable(old[k]))
    IN  /\ Len(result.remaining_args) = Len(complex)
        /\ \A k \in 1..Len(complex) :
             Words(result.remaining_args[k], <<>>) = TextsOf(complex[k])
        /\ Len(new) = Len(old) /\ Len(at) = Len(args.exprs)
        /\ \A k \in 1..Len(old) :
             (\A j \in 1..Len(at) : at[j] # k) => new[k].specifier = old[k].specifier
        /\ \A j \in 1..Len(at) :
             new[at[j]].specifier =
               (IF IsSimpleExpr(args.exprs[j]) THEN args.exprs[j][1].text ELSE <<>>)
               \o old[at[j]].specifier

\* the part of C20 that holds: the arguments are kept in number and order,
\* each simple one is embedded at its own placeholder, and an argument in
\* which no two words are adjacent (a plain field access) stays a trailing
\* argument as it was written
EmbedsAtOwnPlaceholder ==
  Fixed =>
    LET complex == SelectSeq(args.exprs, IsComplexExpr)
        old == Placeholders(args.format_str, 0)
        new == Placeholders(result.new_fmt, 0)
        at == SelectSeq([k \in 1..Len(old) |-> k], LAMBDA k : Embeddable(old[k]))
    IN  /\ Len(result.remaining_args) = Len(complex)
        /\ \A k \in 1..Len(complex) :
             (\A t \in 1..(Len(complex[k]) - 1) :
                complex[k][t].kind = "Punct" \/ complex[k][t + 1].kind = "Punct") =>
               Words(result.remaining_args[k], <<>>) = TextsOf(complex[k])
        /\ Len(new) = Len(old) /\ Len(at) = Len(args.exprs)
        /\ \A j \in 1..Len(at) :
             new[at[j]].specifier =
               (IF IsSimpleExpr(args.exprs[j]) THEN args.exprs[j][1].text ELSE <<>>)
               \o old[at[j]].specifier

(***************************************************************************)
(* Properties of the merge of split impl blocks                            *)
(***************************************************************************)
\* the inherent impl blocks of a file, in file order
InherentImpls(content) ==
  SelectSeq(parse_file(content).items,
            LAMBDA it : it.kind = "impl" /\ ~it.is_trait)

\* those of self type ty / of a type whose last path segment is name
ImplsOfType(content, ty) ==
  SelectSeq(InherentImpls(content), LAMBDA it : it.self_ty = ty)

ImplsOfName(content, name) ==
  SelectSeq(InherentImpls(content), LAMBDA it : it.ident = name)

RECURSIVE Bodies(_)
Bodies(blocks) ==
  IF blocks = <<>> THEN <<>> ELSE Head(blocks).body \o Bodies(Tail(blocks))

SplitTypes(content) ==
  {ty \in {InherentImpls(content)[k].self_ty : k \in 1..Len(InherentImpls(content))} :
     Len(ImplsOfType(content, ty)) >= 2}

SplitNames(content) ==
  {n \in {InherentImpls(content)[k].ident : k \in 1..Len(InherentImpls(content))} :
     Len(ImplsOfName(content, n)) >= 2}

JoinChecked == call \in {"join_split_impls", "fixed"} /\ result # NoResult

\* C21: each type with two or more inherent impl blocks gets exactly one
\* violation, on its second block, and the fix leaves one block of that
\* type holding the bodies of all its blocks in their order; trait impls,
\* blocks of different types and single blocks get no violation.
C21_OneViolationPerSplitType ==
  JoinChecked =>
    /\ Cardinality(result.violations) = Cardinality(SplitTypes(args.contents))
    /\ \A ty \in SplitTypes(args.contents) :
         \E v \in result.violations :
           /\ v.line = ImplsOfType(args.contents, ty)[2].sline
           /\ (call = "fixed" /\ result.applied = v) =>
                /\ parse_file(result.content).ok
                /\ Len(ImplsOfType(result.content, ty)) = 1
                /\ ImplsOfType(result.content, ty)[1].body
                     = Bodies(ImplsOfType(args.contents, ty))

\* what holds in place of C21: the blocks are grouped by the last segment
\* of the type's path, whatever its generic arguments
OneViolationPerSplitName ==
  JoinChecked =>
    /\ Cardinality(result.violations) = Cardinality(SplitNames(args.contents))
    /\ \A n \in SplitNames(args.contents) :
         \E v \in result.violations :
           /\ v.line = ImplsOfName(args.contents, n)[2].sline
           /\ (call = "fixed" /\ result.applied = v) =>
                /\ parse_file(result.content).ok
                /\ Len(ImplsOfName(result.content, n)) = 1
                /\ ImplsOfName(result.content, n)[1].body
                     = Bodies(ImplsOfName(args.contents, n))

\* position (l1, c1) is not after position (l2, c2)
NotAfter(l1, c1, l2, c2) == l1 < l2 \/ (l1 = l2 /\ c1 <= c2)

IsBlockOf(it, name) == it.kind = "impl" /\ ~it.is_trait /\ it.ident = name

\* an item without its position
ItemShape(it) ==
  <<it.kind, it.ident, it.is_trait, it.is_pub, it.is_async,
    IF it.kind = "impl" THEN it.body ELSE <<>>>>

ItemShapes(its) == [k \in 1..Len(its) |-> ItemShape(its[k])]

\* the items before the first block of the type, and the other code that
\* lies between its first and its last block
ItemsBefore(content, name) ==
  LET first == ImplsOfName(content, name)[1]
  IN  SelectSeq(parse_file(content).items,
                LAMBDA it : NotAfter(it.eline, it.ecol, first.sline, first.scol))

ItemsBetween(content, name) ==
  LET blocks == ImplsOfName(content, name)
      first == blocks[1]
      last == blocks[Len(blocks)]
  IN  SelectSeq(parse_file(content).items,
                LAMBDA it : /\ ~IsBlockOf(it, name)
                            /\ NotAfter(first.eline, first.ecol, it.sline, it.scol)
                            /\ NotAfter(it.eline, it.ecol, last.sline, last.scol))

\* the number of places where lit occurs in s
Count(s, lit) ==
  Cardinality({i \in 0..(Len(s) - Len(lit)) : StartsWithAt(s, i, lit)})

CommentLine == <<"/", "/", " ", "c">>

JoinFixed == call = "fixed" /\ result.applied.rule = "join-split-impls"

\* C22: when the joined blocks have other code between them, the fixed
\* file holds, after the items that preceded the first block, the merged
\* block and then every intervening item once and in its original order;
\* an intervening comment is kept once as well.
C22_InterveningCodeKept ==
  JoinFixed =>
    LET name == result.applied.node[2]
        before == ItemsBefore(args.contents, name)
        between == ItemsBetween(args.contents, name)
        fixed == parse_file(result.content)
        merged == <<"impl", name, FALSE, FALSE, FALSE,
                    Bodies(ImplsOfName(args.contents, name))>>
    IN  /\ fixed.ok
        /\ Len(fixed.items) >= Len(before) + 1 + Len(between)
        /\ ItemShapes(SubSeq(fixed.items, 1, Len(before) + 1 + Len(between)))
             = ItemShapes(before) \o <<merged>> \o ItemShapes(between)
        /\ Count(result.content, CommentLine)
             = Count(args.contents, CommentLine)

C21_Witness ==
  /\ JoinFixed
  /\ Len(ImplsOfType(args.contents, <<"A">>)) = 3
  /\ Len(Bodies(ImplsOfType(args.contents, <<"A">>))) = 2

C22_Witness ==
  /\ JoinFixed
  /\ Len(ItemsBetween(args.contents, result.applied.node[2])) = 1
  /\ Count(args.contents, CommentLine) = 0

\* a comment and an item lie between the joined blocks
C22_CommentBetween ==
  /\ JoinFixed
  /\ ItemsBetween(args.contents, result.applied.node[2]) = <<>>
  /\ contains(result.content, <<"}", NL, NL>> \o CommentLine)

(***************************************************************************)
(* Properties of the relocation of impl blocks                             *)
(***************************************************************************)
FollowsChecked == call \in {"impl_follows_type", "relocated"} /\ result # NoResult

\* the inherent impl blocks among items whose type is defined among items
\* before them, each with that definition
TypedImpls(items) ==
  {<<ty, im>> \in {<<items[j], items[k]>> : j \in 1..Len(items), k \in 1..Len(items)} :
     /\ ty.kind = "struct"
     /\ IsBlockOf(im, ty.ident)
     /\ NotAfter(ty.eline, ty.ecol, im.sline, im.scol)}

\* an item that is neither the type nor one of its inherent impl blocks lies
\* between the type definition and the impl block
CodeBetween(items, ty, im) ==
  \E k \in 1..Len(items) :
    /\ ~IsBlockOf(items[k], ty.ident)
    /\ items[k] # ty
    /\ NotAfter(ty.eline, ty.ecol, items[k].sline, items[k].scol)
    /\ NotAfter(items[k].eline, items[k].ecol, im.sline, im.scol)

\* C23: a violation for an impl block that has unrelated code between its
\* type definition and itself carries no fix, and format does not change
\* the file for it.
C23_NoFixAcrossOtherCode ==
  FollowsChecked =>
    \A items \in {parse_file(args.contents).items} :
      \A p \in TypedImpls(items) :
        \A k \in 1..Len(result.violations) :
          (result.violations[k].line = p[2].sline /\ CodeBetween(items, p[1], p[2]))
            => /\ ~HasFix(result.violations[k])
               /\ call = "relocated" => result.applied # result.violations[k]

\* only blank lines lie between the type definition and the block
BlankGap(ls, items, ty, im) ==
  /\ ~CodeBetween(items, ty, im)
  /\ \A l \in (ty.eline + 1)..(im.sline - 1) : trim(ls[l]) = <<>>

\* in the fixed items the first impl block of the type starts on the line
\* after the type definition
StartsAfterType(fixed, name) ==
  /\ fixed.ok
  /\ \E j \in 1..Len(fixed.items), k \in 1..Len(fixed.items) :
       /\ fixed.items[j].kind = "struct"
       /\ fixed.items[j].ident = name
       /\ IsBlockOf(fixed.items[k], name)
       /\ \A m \in 1..(k - 1) : ~IsBlockOf(fixed.items[m], name)
       /\ fixed.items[k].sline = fixed.items[j].eline + 1

\* the message of the violation for block im states `stated` blank lines,
\* and its fix puts the block right after the type
GapReported(ty, im, stated) ==
  \E k \in 1..Len(result.violations) :
    /\ result.violations[k].line = im.sline
    /\ result.gaps[k] = stated
    /\ HasFix(result.violations[k])
    /\ (call = "relocated" /\ result.applied = result.violations[k])
         => StartsAfterType(parse_file(result.content), ty.ident)

\* the blocks that stand g blank lines below their type
BlocksBelowGap(g) ==
  UNION {{p \in TypedImpls(items) :
            /\ p[2].sline = p[1].eline + g + 1
            /\ BlankGap(lines(args.contents), items, p[1], p[2])} :
         items \in {parse_file(args.contents).items}}

\* C24 as stated: three blank lines between the type and its impl block
\* are reported as "has 2 blank line(s)", and the fix removes the gap.
C24_ThreeBlankLinesStatedAsTwo ==
  FollowsChecked => \A p \in BlocksBelowGap(3) : GapReported(p[1], p[2], 2)

\* C24: three blank lines between the type and its impl block are reported
\* as "has 3 blank line(s)" (the number of blank lines), and the fix removes
\* the gap so that the block starts on the line after the type definition.
C24_BlankLinesCounted ==
  FollowsChecked => \A p \in BlocksBelowGap(3) : GapReported(p[1], p[2], 3)

\* the same for any gap of two or more blank lines
EveryGapCounted ==
  FollowsChecked =>
    \A g \in 2..(MaxBlankLines + MaxBlankLines) :
      \A p \in BlocksBelowGap(g) : GapReported(p[1], p[2], g)

C24_Witness ==
  /\ call = "relocated"
  /\ \E p \in BlocksBelowGap(3) :
       /\ result.applied.line = p[2].sline
       /\ StartsAfterType(parse_file(result.content), p[1].ident)

(***************************************************************************)
(* Properties of the reordering of items                                   *)
(***************************************************************************)
PubChecked == call = "pub_first" /\ result # NoResult

\* the top-level items the ordering is about: no impl blocks
Ordered(items) == SelectSeq(items, LAMBDA it : it.kind # "impl")

IsMain(it) == it.kind = "fn" /\ it.ident = KwMain

\* the place of an item in the canonical order: constants, type aliases,
\* the public tier (main, traits, others), the private tier likewise
CanonicalRank(it) ==
  IF it.kind = "const" THEN 1
  ELSE IF it.kind = "type" THEN 2
  ELSE (IF it.is_pub THEN 2 ELSE 5)
       + (IF IsMain(it) THEN 1 ELSE IF it.kind = "trait" THEN 2 ELSE 3)

\* the place of an item in the order of two tiers: public (main, others),
\* private (main, others)
TierRank(it) ==
  (IF it.is_pub THEN 0 ELSE 2) + (IF IsMain(it) THEN 1 ELSE 2)

InOrder(ranks) == \A i, j \in 1..Len(ranks) : i < j => ranks[i] <= ranks[j]

CanonicalOrder(items) ==
  InOrder([k \in 1..Len(Ordered(items)) |-> CanonicalRank(Ordered(items)[k])])

TierOrder(items) ==
  InOrder([k \in 1..Len(Ordered(items)) |-> TierRank(Ordered(items)[k])])

\* C25: the rule reports a violation exactly when the items of the file,
\* imports and impl blocks aside, are not in the canonical order: constants,
\* type aliases, public tier (main, traits, others), private tier likewise.
C25_ReportsIffNotCanonical ==
  (PubChecked /\ result.rounds = 0 /\ result.ok) =>
    (result.violations # <<>> <=> ~CanonicalOrder(parse_file(args.contents).items))

\* what holds in place of C25: the rule knows two tiers only, public items
\* (main first) before private items (main first), whatever their kind
ReportsIffNotInTiers ==
  (PubChecked /\ result.ok) =>
    (result.violations # <<>> <=> ~TierOrder(parse_file(result.content).items))

\* the items of one tier other than main, without their positions
OthersOfTier(items, is_pub) ==
  ItemShapes(SelectSeq(Ordered(items), LAMBDA it : it.is_pub = is_pub /\ ~IsMain(it)))

\* how many of the items have the shape sh
ShapeCount(items, sh) == Cardinality({k \in 1..Len(items) : ItemShape(items[k]) = sh})

DocLine == <<"/", "/", "/", " ", "d">>

\* how many items stand directly below a doc comment line
Documented(content, items) ==
  Cardinality({k \in 1..Len(items) :
                 /\ items[k].sline > 1
                 /\ lines(content)[items[k].sline - 1] = DocLine})

PrivateThenPublic ==
  <<"f","n"," ","f","(",")","{","}"," ","p","u","b"," ","f","n"," ","g",
    "(",")","{","}">>

PublicThenPrivate ==
  <<"p","u","b"," ","f","n"," ","g","(",")","{","}"," ","f","n"," ","f",
    "(",")","{","}">>

\* the rounds have ended: the last pass reported nothing
Reordered == PubChecked /\ result.rounds >= 1 /\ result.violations = <<>>

\* each item of orig is in fin once, the items of a tier other than main
\* keep their order, and a doc comment line stays above its item
ItemsKept(content, orig, fixed_content, fin) ==
  /\ TierOrder(fin)
  /\ OthersOfTier(fin, TRUE) = OthersOfTier(orig, TRUE)
  /\ OthersOfTier(fin, FALSE) = OthersOfTier(orig, FALSE)
  /\ Len(fin) = Len(orig)
  /\ \A k \in 1..Len(orig) :
       ShapeCount(fin, ItemShape(orig[k])) = ShapeCount(orig, ItemShape(orig[k]))
  /\ Count(fixed_content, DocLine) = Count(content, DocLine)
  /\ Documented(fixed_content, fin) = Documented(content, orig)

\* when the rounds have ended the items are in order and all kept
ReorderKeepsItemsWhenDone ==
  Reordered =>
    /\ result.ok
    /\ \A orig \in {parse_file(args.contents).items} :
         \A fin \in {parse_file(result.content).items} :
           ItemsKept(args.contents, orig, result.content, fin)

\* C26: when the rounds of the reordering fix have ended, every public item
\* precedes every private item, main is first in its tier, the other items
\* of a tier keep their order, and each item is there once with its doc
\* comment line; `fn f(){} pub fn g(){}` has become `pub fn g(){} fn f(){}`.
C26_ReorderKeepsItems ==
  /\ ReorderKeepsItemsWhenDone
  /\ (PubChecked /\ args.contents = PrivateThenPublic /\ result.rounds >= 1)
       => result.content = PublicThenPrivate

\* a file with every item on a line of its own is reordered within
\* MaxMoves - 1 rounds
OnOwnLines(items) ==
  \A i, j \in 1..Len(items) : i < j => items[i].eline < items[j].sline

RoundsEnd ==
  (PubChecked /\ OnOwnLines(parse_file(args.contents).items))
    => result.rounds < MaxMoves

PubDone ==
  /\ Reordered
  /\ result.rounds = 2
  /\ Documented(result.content, parse_file(result.content).items) = 1

(***************************************************************************)
(* Properties of the task-spawn rule                                       *)
(***************************************************************************)
\* the calls of a body in source order, nested calls included
RECURSIVE CallsInOrder(_)
CallsInOrder(calls) ==
  IF calls = <<>> THEN <<>>
  ELSE <<Head(calls)>> \o CallsInOrder(Head(calls).args) \o CallsInOrder(Tail(calls))

SpawnPaths ==
  { <<"tokio", "spawn">>, <<"tokio", "spawn_local">>, <<"tokio", "spawn_blocking">>,
    <<"tokio", "task", "spawn">>, <<"tokio", "task", "spawn_local">>,
    <<"tokio", "task", "spawn_blocking">> }

UnstructuredPaths ==
  { <<"tokio", "spawn">>, <<"tokio", "spawn_local">>,
    <<"tokio", "task", "spawn">>, <<"tokio", "task", "spawn_local">> }

\* the places of the calls of the body whose path is one of paths
PlacesOf(body, paths) ==
  LET hits == SelectSeq(CallsInOrder(body), LAMBDA c : c.path \in paths)
  IN  [k \in 1..Len(hits) |-> hits[k].place]

Visited == call = "no_tokio_spawn" /\ result.todo = <<>>

\* C27: the rule reports one violation without a fix for every call, nested
\* ones included, whose path is tokio::spawn, tokio::spawn_local,
\* tokio::spawn_blocking, tokio::task::spawn, tokio::task::spawn_local or
\* tokio::task::spawn_blocking, and none for a call with another path.
C27_ReportsEverySpawn ==
  Visited =>
    /\ [k \in 1..Len(result.violations) |-> result.violations[k].line]
         = PlacesOf(args.body, SpawnPaths)
    /\ \A k \in 1..Len(result.violations) : ~HasFix(result.violations[k])

\* what holds in place of C27: the blocking variants are not reported
ReportsUnstructuredSpawns ==
  Visited =>
    /\ [k \in 1..Len(result.violations) |-> result.violations[k].line]
         = PlacesOf(args.body, UnstructuredPaths)
    /\ \A k \in 1..Len(result.violations) : ~HasFix(result.violations[k])

(***************************************************************************)
(* Properties of the stack of skipped ranges                               *)
(***************************************************************************)
\* node lies in the subtree of root
RECURSIVE InSubtree(_, _)
InSubtree(root, node) ==
  \/ root = node
  \/ \E k \in 1..Len(root.children) : InSubtree(root.children[k], node)

\* the ranges of the marked containers strictly above node, outermost first
RECURSIVE MarkedAncestors(_, _)
MarkedAncestors(root, node) ==
  IF root = node THEN <<>>
  ELSE (IF root.marked THEN <<LineRange(root.sline, root.eline + 1)>> ELSE <<>>)
       \o MarkedAncestors(
            root.children[CHOOSE k \in 1..Len(root.children) :
                            InSubtree(root.children[k], node)],
            node)

Traversing == call = "ignored_error_comment"

\* C28: the stack of skipped ranges is balanced with the traversal: when a
\* node is visited the stack holds exactly the ranges of its marked
\* ancestors; a marked container has pushed its own range, and nothing
\* else, on top of them when its children are done, an unmarked one
\* nothing; the stack is empty when the traversal of the file ends.
C28_SkipStackBalanced ==
  Traversing =>
    /\ result.pending = <<>> => result.skipped_ranges = <<>>
    /\ \A t \in {Head(result.pending) : k \in {1} \cap DOMAIN result.pending} :
         /\ t.op = "enter" =>
              result.skipped_ranges = MarkedAncestors(args.file, t.node)
         /\ t.op = "return" =>
              result.skipped_ranges
                = MarkedAncestors(args.file, t.node)
                  \o (IF t.node.marked
                      THEN <<LineRange(t.node.sline, t.node.eline + 1)>> ELSE <<>>)

\* a step changes the depth by one push on entering a marked container,
\* one pop on leaving it, and not otherwise
C28_OnePushOnePop ==
  [][Traversing =>
       Len(result'.skipped_ranges) - Len(result.skipped_ranges)
         = (IF Head(result.pending).node.marked /\ Head(result.pending).node.kind = "container"
            THEN (IF Head(result.pending).op = "enter" THEN 1 ELSE -1)
            ELSE 0)]_vars

\* a marked container inside a marked container is about to return
C28_Witness ==
  /\ Traversing
  /\ result.pending # <<>>
  /\ Head(result.pending).op = "return"
  /\ Head(result.pending).node.marked
  /\ Len(result.skipped_ranges) = 3
  /\ result.violations = <<>>

(***************************************************************************)
(* Properties of the phases of run_format                                  *)
(***************************************************************************)
FormatRunning == call = "run_format"

Phase(name) == \E k \in DOMAIN result.phases : result.phases[k] = name

PreconditionFailed == Phase("no target directory") \/ Phase("no source directories")

\* a source file has been read, or a fix written
FilesTouched ==
  \/ pc \notin {"target_dir", "src_dirs", "snapshots", "collect", "exited"}
  \/ tree # tree0
  \/ info # NoInfo
  \/ writes > 0
  \/ fixed_count > 0
  \/ run_fixed_count > 0
  \/ DOMAIN done # {}

\* C29: the phases of a format run are ordered: a failed precondition ends
\* the run with 1, no snapshot directory deleted and no source file read or
\* written; snapshot directories are deleted in at most one phase, only
\* with the snapshot rule enabled, after the precondition passed and before
\* any file is read or fixed.
C29_PhasesOrdered ==
  FormatRunning =>
    /\ PreconditionFailed =>
         /\ pc = "exited" /\ exit_code = 1
         /\ result.snapshots = args.target_dir.snapshots
         /\ ~FilesTouched /\ file_paths = <<>> /\ stdout = <<>>
    /\ Cardinality({k \in DOMAIN result.phases :
                      result.phases[k] = "delete_snap_files"}) <= 1
    /\ Phase("delete_snap_files") =>
         /\ args.opts.insta_inline_snapshot
         /\ result.phases
              = <<"target directory", "source directories", "delete_snap_files">>
    /\ result.snapshots # args.target_dir.snapshots => Phase("delete_snap_files")
    /\ (FilesTouched \/ file_paths # <<>>) =>
         /\ Len(result.phases) = 3
         /\ args.opts.insta_inline_snapshot => Phase("delete_snap_files")

\* the snapshot directories change in the one step between the
\* precondition and the collection of the files
C29_DeletedBeforeFiles ==
  [][FormatRunning /\ result'.snapshots # result.snapshots =>
       /\ pc = "snapshots" /\ pc' = "collect"
       /\ args.opts.insta_inline_snapshot
       /\ ~FilesTouched]_vars

\* a run that deleted a snapshot directory has fixed a file
C29_Witness ==
  /\ FormatRunning
  /\ result.snapshots # args.target_dir.snapshots
  /\ tree # tree0
  /\ pc = "exited"

\* a run without source directories has ended, its snapshot rule enabled
C29_FailedWitness ==
  /\ FormatRunning
  /\ Phase("no source directories")
  /\ args.opts.insta_inline_snapshot
  /\ snapshot_dirs_to_delete(args.target_dir) # {}
  /\ pc = "exited"

(***************************************************************************)
(* Properties of the order of the violations                               *)
(***************************************************************************)
\* the Vecs check can return for the content: the violations of the types
\* with split blocks, in every order the walk over the HashMap can take
ViolationOrders(violations) ==
  {order \in [1..Cardinality(violations) -> violations] :
     \A v \in violations : \E k \in DOMAIN order : order[k] = v}

\* C30: for a fixed content the merge rule returns one sequence of
\* violations, and the fix a format round applies, the one of the first
\* violation, is determined by the content.
C30_ViolationsDetermined ==
  JoinChecked =>
    /\ Cardinality(ViolationOrders(result.violations)) = 1
    /\ call = "fixed" => \A v \in result.violations : v = result.applied

\* with one type whose blocks are split, the sequence and the fix are
\* determined by the content
OneSplitNameDetermined ==
  JoinChecked =>
    \/ Cardinality(SplitNames(args.contents)) > 1
    \/  /\ Cardinality(ViolationOrders(result.violations)) = 1
        /\ call = "fixed" => \A v \in result.violations : v = result.applied

====
